---- MODULE Spec2Model ----
(***************************************************************************)
(* Verification model of the cs-web-server of webxash3d-fwgs               *)
(* (docker/cs-web-server/src/server): the lock-free token-bucket rate      *)
(* limiter, the HTTP routing / authentication layer, the WebRTC signaling  *)
(* handler with its address pool, and the log fan-out.                     *)
(*                                                                         *)
(* Each subsystem has its own variables and its own specification; a       *)
(* specification leaves the variables of the other subsystems unchanged.   *)
(***************************************************************************)
EXTENDS Integers, Sequences, FiniteSets, Bags, TLC

(***************************************************************************)
(* Bounds of the model                                                     *)
(***************************************************************************)
\* bucket objects ever stored in one run (evicted buckets stay allocated:
\* a caller may still hold a pointer to them)
MaxBuckets == 2
\* clock advances in one run of the limiter specification
MaxTicks == 2
\* calls made in one run of the sequential specification
MaxSeqCalls == 7
\* concurrent callers of a burst
NumCallers == 3
\* /v1/rcon requests a client has left when the HTTP specification starts
RconLeft == 2
\* size of the address pool (256 in the program), browsers, packets per browser
PoolSize == 2
MaxSessions == 3
MaxPackets == 1
\* lines published in one run, subscribers, and the capacities of the ring
\* (1000 in the program) and of the channels (256 in the program)
MaxLines == 3
MaxSubscribers == 2
RingCapacity == 2
\* capacities and Add calls of the ring used by one goroutine
MaxCapacity == 3
MaxAdds == 5
\* packets in one SendToBatch call
MaxBatch == 2
\* messages one peer sends, and the size of ReadLoop's buffer (8192 in the
\* program)
MaxMessages == 2
messageSize == 2
\* browsers of the signaling specification, the track IDs they may choose,
\* DefaultSignalsCount (5 in the program), the attempts of one
\* signalPeerConnections call (25 in the program), deferred calls kept
MaxPeers == 2
MaxTrackIDs == 2
SignalsCount == 2
SyncAttempts == 2
MaxDeferred == 1
\* frames one websocketHandler reads
MaxFrames == 3
BroadcastCapacity == 2
ClientCapacity == 1

(***************************************************************************)
(* Program constants                                                       *)
(***************************************************************************)
tokenMultiplier == 1000
Port == 1000
LoginRequestsPerMinute == 5
RconRequestsPerMinute == 30
SecondsPerMinute == 60
IdleWindow == 600
SweepPeriod == 300

Limiters == {"login", "rcon"}
Keys == {"ip1"}
Callers == 1..NumCallers
\* the callers of the limiter specification
ConcurrentCallers == {1, 2}
NoBucket == 0
BucketIds == 1..MaxBuckets

Min(a, b) == IF a < b THEN a ELSE b

VARIABLES
    \* ---- rate limiter (part_003) ----
    clock,        \* time.Now().Unix()
    nTicks,       \* clock advances so far (bounded by MaxTicks)
    limiterSet,   \* loginRateLimiter / rconRateLimiter are non-nil
    visitors,     \* RateLimiter.visitors: limiter -> key -> bucket (or NoBucket)
    buckets,      \* atomicTokenBucket.state of every allocated bucket
    nBuckets,     \* buckets allocated so far
    pc,           \* position of each caller inside Allow / allow
    callLim,      \* limiter the caller's Allow is running on
    callKey,      \* ip argument of the caller's Allow
    bucket,       \* caller's local `bucket`
    oldState,     \* caller's local `oldState`
    moved,        \* per caller: another call has stored a new state since its load
    now,          \* caller's local `now`
    ret,          \* result of the caller's call in a burst (one call per caller)
    mode,         \* what the limiter observers record: "limiter", "seq", "burst";
                  \* "http" and "off" when another subsystem runs
    nCalls,       \* calls started so far in the sequential specification
    sweepPc,      \* position of cleanupVisitors
    sweepNow,     \* cleanupVisitors' local `now`
    sweepTodo,    \* keys the running Range has not visited yet
    sweepKey,     \* key the Range callback is about to Delete
    lastSweep,    \* clock reading of the last ticker tick consumed
    \* ---- observers of the limiter (history) ----
    granted,      \* per key: Allow calls granted with `now` = the current clock reading
    evictedFresh, \* a Delete removed a bucket whose timestamp was not older than the idle window
    scn,          \* results of the calls on a fresh key, while they follow the 5/min scenario
    avail0,       \* whole tokens available when a burst began
    \* ---- HTTP server (part_004, sfu.go, auth.go, handlers.go) ----
    adminPassword, \* ADMIN_PANEL_PASSWORD ("" when unset)
    adminUsername, \* ADMIN_PANEL_USER, "admin" when unset
    resp,          \* the last request served and the response written to it
    \* ---- signaling handler and address pool (config.go, part_002) ----
    pool,          \* indices available in the address pool
    sessPc,        \* position of each websocketHandler call
    sessIndex,     \* its local `index`
    sessOk,        \* the ok that came with it (the code drops it)
    writeChannel,  \* its "write" data channel: "nil", "created", "open", "closed"
    readChannel,   \* its "read" data channel, likewise
    readLoop,      \* position of its ReadLoop goroutine
    nRead,         \* packets its ReadLoop has read (bounded by MaxPackets)
    connections,   \* the connections table: index -> session whose writer is stored
    peerConnections, \* sessions in the peerConnections list
    \* ---- observers of the signaling handler (history) ----
    putBy,         \* sessions whose deferred pool.TryPut has run
    pushedAfterRelease, \* a packet was pushed under an index after its TryPut
    \* ---- log fan-out (logging.go, handlers.go, part_002) ----
    logBuffer,     \* the CircularBuffer: buffer, head, size
    logBroadcast,  \* the broadcast channel
    logClients,    \* registered subscribers
    clientChan,    \* each subscriber's clientChan
    dispPc,        \* position of logBroadcaster
    dispMsg,       \* its local `message`
    subPc,         \* position of each subscriber's logsWebSocketHandler
    subSize,       \* GetAll's local `size`
    subHead,       \* GetAll's local `head`
    history,       \* the history message written to the subscriber
    delivered,     \* the live messages written to the subscriber
    nPublished,    \* lines published so far; line n is the n-th
    pubLine,       \* the line being published
    pubPc,         \* position of the publisher
    \* ---- observers of the log fan-out (history) ----
    offered,       \* lines enqueued on the subscriber's clientChan
    dropped,       \* lines dropped because logBroadcast or a clientChan was full
    published,     \* lines whose publication has completed
    afterSnapshot, \* per subscriber: lines published after its history snapshot
    dequeued,      \* the lines logBroadcaster has taken from logBroadcast, in order
    droppedBroadcast, \* lines dropped because logBroadcast was full
    sent,          \* per subscriber: the events of the frames written to its connection
    authGood,      \* per subscriber: was its first message an operator's v1:auth
    \* ---- a CircularBuffer used by one goroutine (logging.go) ----
    cb,            \* the buffer: [buffer, capacity, head, size]
    added,         \* the entries passed to Add so far, in order
    result,        \* what the last GetAll returned
    seen,          \* the value of added when the last GetAll was called
    called,        \* has GetAll been called
    \* ---- the engine's calls of SFUNet.SendTo / SendToBatch (part_002) ----
    netPc,         \* "idle", "loop" (inside SendToBatch's range loop), "done"
    packets,       \* the packets passed to the call
    batchPos,          \* position of the range loop in packets
    sum,           \* SendToBatch's sum
    sendRet,       \* what the call returned
    wrote,         \* the packets conn.Write has accepted, in order
    nSendTo,       \* SendTo calls made by the call
    nWrite,        \* conn.Write calls made by the call
    \* ---- ReadLoop with the bytes of the messages (config.go:311-332) ----
    rlPc,          \* per peer: "read", "push", "exit"
    rlIp,          \* per peer: ip[0] of the address ReadLoop was started with
    buffer,        \* per peer: the loop's read buffer
    rlN,           \* per peer: the n that d.Read returned
    messages,      \* per peer: the messages d.Read has returned, in order
    inbound,       \* the packets passed to net.PushPacket, in order
    \* ---- one token from its issue to its validation (auth.go) ----
    tokenString,   \* the token string: [wellFormed, claims, mac]
    issuedAt,      \* the clock when generateToken made it
    issuedTo,      \* the username it was made for
    altered,       \* what has been done to the string since: "no", "signature",
                   \* "payload", "malformed"
    checked,       \* the last validateToken call: its inputs and its result
    \* ---- signaling and track fan-out (config.go:119-289, 335-546) ----
    listLock,      \* who holds listLock: <<"free", 0>>, <<"pass", 0>>, <<"add", s>>, ...
    pcs,           \* the peerConnections slice, as the sequence of its sessions
    signalsCount,  \* per session: state.signalsCount
    trackLocals,   \* track ID -> the session whose track made the sink (NoSession: none)
    hPc,           \* per session: where its websocketHandler is
    connState,     \* per session: peerConnection.ConnectionState()
    closedCb,      \* per session: its OnConnectionStateChange(Closed) callback is pending
    trackPc,       \* per session: where the OnTrack goroutine of its track is
    trackId,       \* per session: the ID of the track it publishes
    senders,       \* per session: the bag of its senders' tracks, as <<ID, sink's session>>
    offersOut,     \* per session: 1 while it is in have-local-offer (an offer unanswered)
    wsWriters,     \* per session: who is inside Conn.WriteJSON of its websocket
    deferred,      \* re-invocations of signalPeerConnections scheduled in 3 seconds
    passBy,        \* the caller whose signalPeerConnections holds listLock
    syncAttempt,   \* attempts the running invocation has started
    passI,         \* the index i of attemptSync's loop (from 1)
    passOffered,   \* sessions sent an offer in the running attempt
    \* ---- the read loop of websocketHandler (config.go:493-545) ----
    message,       \* per session: the handler's websocketMessage, reused for every frame
    frame,         \* per session: the frame read last and its number
    remoteDescription, \* per session: the peer connection has a remote description
    iceCandidates  \* per session: the candidates AddICECandidate has accepted

limVars == <<clock, nTicks, limiterSet, visitors, buckets, nBuckets, pc, callLim,
             callKey, bucket, oldState, moved, now, ret, mode, nCalls, sweepPc, sweepNow,
             sweepTodo, sweepKey, lastSweep, granted, evictedFresh, scn, avail0>>

httpVars == <<adminPassword, adminUsername, resp>>

sfuVars == <<pool, sessPc, sessIndex, sessOk, writeChannel, readChannel, readLoop, nRead,
             connections, peerConnections, putBy, pushedAfterRelease>>

logVars == <<logBuffer, logBroadcast, logClients, clientChan, dispPc, dispMsg, subPc,
             subSize, subHead, history, delivered, nPublished, pubLine, pubPc, offered,
             dropped, published, afterSnapshot, dequeued, droppedBroadcast, sent,
             authGood>>

ringVars == <<cb, added, result, seen, called>>

\* the variables of the parts that are exercised on their own
netVars == <<netPc, packets, batchPos, sum, sendRet, wrote, nSendTo, nWrite>>

readVars == <<rlPc, rlIp, buffer, rlN, messages, inbound>>

tokVars == <<tokenString, issuedAt, issuedTo, altered, checked>>

sigVars == <<listLock, pcs, signalsCount, trackLocals, hPc, connState, closedCb, trackPc,
             trackId, senders, offersOut, wsWriters, deferred, passBy,
             syncAttempt, passI, passOffered>>

frameVars == <<message, frame, remoteDescription, iceCandidates>>

unitVars == <<ringVars, netVars, readVars, tokVars, sigVars, frameVars>>

vars == <<limVars, httpVars, sfuVars, logVars, unitVars>>

otherThanLimiter == <<httpVars, sfuVars, logVars, unitVars>>
otherThanSfu == <<limVars, httpVars, logVars, unitVars>>
otherThanLog == <<limVars, httpVars, sfuVars, unitVars>>
otherThanRing == <<limVars, httpVars, sfuVars, logVars, netVars, readVars, tokVars, sigVars,
                  frameVars>>
otherThanNet == <<limVars, httpVars, logVars, ringVars, readVars, tokVars, sigVars,
                  frameVars>>
otherThanRead == <<limVars, httpVars, sfuVars, logVars, ringVars, netVars, tokVars, sigVars,
                  frameVars>>
otherThanTok == <<limVars, httpVars, sfuVars, logVars, ringVars, netVars, readVars, sigVars,
                  frameVars>>
otherThanSig == <<limVars, httpVars, sfuVars, logVars, ringVars, netVars, readVars, tokVars,
                  frameVars>>
otherThanHttp == <<pc, callLim, callKey, bucket, oldState, moved, now, ret, mode, nCalls,
                   sweepPc, sweepNow, sweepTodo, sweepKey, lastSweep, granted,
                   evictedFresh, scn, avail0, nTicks, sfuVars, logVars, unitVars>>

(***************************************************************************)
(* atomicTokenBucket (part_003:14-67)                                      *)
(*                                                                         *)
(* The packed uint64 state is kept as its two 32-bit fields: tokens        *)
(* (fixed point, scale tokenMultiplier) and time (Unix seconds).  The      *)
(* float64 arithmetic of allow is computed exactly, as a fraction over     *)
(* SecondsPerMinute * tokenMultiplier; uint64(newTokens*tokenMultiplier)   *)
(* truncates.  Where the exact product is a whole number of milli-tokens   *)
(* but oldTokens = tokens/1000 is not exactly representable in binary, the *)
(* float64 product can fall just below it and truncate to one less:        *)
(* TruncationLoss is that choice.  (Evaluating lines 32-53 in IEEE-754     *)
(* double precision for every tokens value up to the capacity and every    *)
(* elapsed time, for both limiters of the program, gives the exact result  *)
(* or, only under the condition below, one milli-token less; a whole       *)
(* number of tokens is always exact.)                                      *)
(***************************************************************************)
RequestsPerMinute(l) == IF l = "login" THEN LoginRequestsPerMinute ELSE RconRequestsPerMinute

\* rl.capacity = requestsPerMinute, in tokens
Capacity(l) == RequestsPerMinute(l)

\* denominator of the exact arithmetic: rate = requestsPerMinute / 60.0
Scale == SecondsPerMinute * tokenMultiplier

newAtomicTokenBucket(l, t) ==
    [tokens |-> Capacity(l) * tokenMultiplier, time |-> t]

\* mutant: the rate is truncated to whole tokens per second (5/60 = 0)
RefilledIntegerRate(st, t, l) ==
    SecondsPerMinute * st.tokens
        + (t - st.time) * (RequestsPerMinute(l) \div SecondsPerMinute) * Scale

\* oldTokens + elapsed*rate, as a numerator over Scale (not yet clamped)
Refilled(st, t, l) ==
    SecondsPerMinute * st.tokens + (t - st.time) * RequestsPerMinute(l) * tokenMultiplier

\* mutant: the refill is not clamped to the capacity
ClampedNot(st, t, l) == Refilled(st, t, l)

\* if newTokens > capacity { newTokens = capacity }
Clamped(st, t, l) == Min(Refilled(st, t, l), Capacity(l) * Scale)

\* if newTokens < 1 { return false }
CanConsume(st, t, l) == Clamped(st, t, l) >= Scale

\* newTokens -= 1 ; uint64(newTokens*tokenMultiplier)
Consumed(st, t, l) == (Clamped(st, t, l) - Scale) \div SecondsPerMinute

TruncationLoss(st, t, l) ==
    IF /\ (Clamped(st, t, l) - Scale) % SecondsPerMinute = 0
       /\ Refilled(st, t, l) < Capacity(l) * Scale
       /\ st.tokens % tokenMultiplier # 0
       /\ Consumed(st, t, l) % tokenMultiplier # 0
    THEN {0, 1} ELSE {0}

\* the states one pass of allow's loop may try to commit (lines 31-53)
NewStates(st, t, l) ==
    { [tokens |-> Consumed(st, t, l) - loss, time |-> t] : loss \in TruncationLoss(st, t, l) }

\* whole tokens a call reading the clock at t finds in st
WholeTokens(st, t, l) == Clamped(st, t, l) \div Scale

getLastTime(st) == st.time

(***************************************************************************)
(* Observers                                                               *)
(***************************************************************************)
ScenarioTimes == <<0, 0, 0, 0, 0, 0, 12>>

ScnOff == [on |-> FALSE, t0 |-> 0, res |-> <<>>]

\* a call on the scenario's bucket returned `ok` having read the clock at t
ScnAfterCall(s, t, ok) ==
    IF /\ s.on
       /\ Len(s.res) < Len(ScenarioTimes)
       /\ t = s.t0 + ScenarioTimes[Len(s.res) + 1]
    THEN [s EXCEPT !.res = Append(@, ok)]
    ELSE ScnOff

(***************************************************************************)
(* RateLimiter.Allow and atomicTokenBucket.allow, one caller p             *)
(* (part_003:29-61, 90-102)                                                *)
(***************************************************************************)
sweepVars == <<sweepPc, sweepNow, sweepTodo, sweepKey, lastSweep>>

\* rl.visitors.LoadOrStore(ip, newAtomicTokenBucket(rl.capacity))
AllowEnter(p, l, k) ==
    /\ pc[p] = "idle"
    /\ limiterSet
    /\ mode = "burst" => ret[p] = "none"
    /\ mode = "seq" => nCalls < MaxSeqCalls /\ l = callLim[p]
    /\ nCalls' = IF mode = "seq" THEN nCalls + 1 ELSE nCalls
    /\ IF visitors[l][k] = NoBucket
       THEN /\ nBuckets < MaxBuckets
            /\ nBuckets' = nBuckets + 1
            /\ buckets' = [buckets EXCEPT ![nBuckets + 1] = newAtomicTokenBucket(l, clock)]
            /\ visitors' = [visitors EXCEPT ![l][k] = nBuckets + 1]
            /\ bucket' = [bucket EXCEPT ![p] = nBuckets + 1]
            /\ scn' = IF mode = "seq" /\ l = "login"
                      THEN [on |-> TRUE, t0 |-> clock, res |-> <<>>] ELSE scn
       ELSE /\ bucket' = [bucket EXCEPT ![p] = visitors[l][k]]
            /\ UNCHANGED <<nBuckets, buckets, visitors, scn>>
    /\ pc' = [pc EXCEPT ![p] = "load"]
    /\ callLim' = [callLim EXCEPT ![p] = l]
    /\ callKey' = [callKey EXCEPT ![p] = k]
    /\ UNCHANGED otherThanLimiter
    /\ UNCHANGED <<clock, nTicks, limiterSet, oldState, moved, now, ret, mode, sweepVars,
                   granted, evictedFresh, avail0>>

\* oldState := atomic.LoadUint64(&tb.state) ; now := time.Now().Unix()
AllowLoad(p) ==
    /\ pc[p] = "load"
    /\ oldState' = [oldState EXCEPT ![p] = buckets[bucket[p]]]
    /\ moved' = [moved EXCEPT ![p] = FALSE]
    /\ now' = [now EXCEPT ![p] = clock]
    /\ pc' = [pc EXCEPT ![p] = "cas"]
    /\ UNCHANGED otherThanLimiter
    /\ UNCHANGED <<clock, nTicks, limiterSet, visitors, buckets, nBuckets, callLim,
                   callKey, bucket, ret, mode, nCalls, sweepVars, granted,
                   evictedFresh, scn, avail0>>

\* Allow returns ok to its caller
Returned(p, ok) ==
    /\ pc' = [pc EXCEPT ![p] = "idle"]
    /\ ret' = IF mode = "burst"
              THEN [ret EXCEPT ![p] = IF ok THEN "true" ELSE "false"]
              ELSE ret
    /\ granted' = IF mode = "limiter" /\ ok /\ now[p] = clock
                  THEN [granted EXCEPT ![callKey[p]] = @ + 1]
                  ELSE granted
    /\ scn' = IF mode = "seq" /\ callLim[p] = "login"
              THEN ScnAfterCall(scn, now[p], ok)
              ELSE scn

\* if newTokens < 1 { return false }
AllowReject(p) ==
    /\ pc[p] = "cas"
    /\ ~CanConsume(oldState[p], now[p], callLim[p])
    /\ Returned(p, FALSE)
    /\ UNCHANGED otherThanLimiter
    /\ UNCHANGED <<clock, nTicks, limiterSet, visitors, buckets, nBuckets, callLim,
                   callKey, bucket, oldState, moved, now, mode, nCalls, sweepVars,
                   evictedFresh, avail0>>

\* mutant: the new state is stored without comparing (a plain store)
AllowCommitStore(p) ==
    /\ pc[p] = "cas"
    /\ CanConsume(oldState[p], now[p], callLim[p])
    /\ \E newState \in NewStates(oldState[p], now[p], callLim[p]) :
          buckets' = [buckets EXCEPT ![bucket[p]] = newState]
    /\ Returned(p, TRUE)
    /\ moved' = [q \in Callers |->
                 IF q # p /\ pc[q] = "cas" /\ bucket[q] = bucket[p] THEN TRUE ELSE moved[q]]
    /\ UNCHANGED otherThanLimiter
    /\ UNCHANGED <<clock, nTicks, limiterSet, visitors, nBuckets, callLim, callKey,
                   bucket, oldState, now, mode, nCalls, sweepVars, evictedFresh,
                   avail0>>

\* atomic.CompareAndSwapUint64(&tb.state, oldState, newState) succeeds
AllowCommit(p) ==
    /\ pc[p] = "cas"
    /\ CanConsume(oldState[p], now[p], callLim[p])
    /\ buckets[bucket[p]] = oldState[p]
    /\ \E newState \in NewStates(oldState[p], now[p], callLim[p]) :
          buckets' = [buckets EXCEPT ![bucket[p]] = newState]
    /\ Returned(p, TRUE)
    /\ moved' = [q \in Callers |->
                 IF q # p /\ pc[q] = "cas" /\ bucket[q] = bucket[p] THEN TRUE ELSE moved[q]]
    /\ UNCHANGED otherThanLimiter
    /\ UNCHANGED <<clock, nTicks, limiterSet, visitors, nBuckets, callLim, callKey,
                   bucket, oldState, now, mode, nCalls, sweepVars, evictedFresh,
                   avail0>>

\* a compare-and-swap that may fail although the state is the one loaded
AllowRetrySpurious(p) ==
    /\ pc[p] = "cas"
    /\ CanConsume(oldState[p], now[p], callLim[p])
    /\ pc' = [pc EXCEPT ![p] = "load"]
    /\ UNCHANGED otherThanLimiter
    /\ UNCHANGED <<clock, nTicks, limiterSet, visitors, buckets, nBuckets, callLim,
                   callKey, bucket, oldState, moved, now, ret, mode, nCalls, sweepVars,
                   granted, evictedFresh, scn, avail0>>

\* the compare-and-swap fails: another caller modified state, retry
AllowRetry(p) ==
    /\ pc[p] = "cas"
    /\ CanConsume(oldState[p], now[p], callLim[p])
    /\ buckets[bucket[p]] # oldState[p]
    /\ pc' = [pc EXCEPT ![p] = "load"]
    /\ UNCHANGED otherThanLimiter
    /\ UNCHANGED <<clock, nTicks, limiterSet, visitors, buckets, nBuckets, callLim,
                   callKey, bucket, oldState, moved, now, ret, mode, nCalls, sweepVars,
                   granted, evictedFresh, scn, avail0>>

(***************************************************************************)
(* cleanupVisitors (part_003:104-121), limiter "login"                     *)
(***************************************************************************)
callerVars == <<pc, callLim, callKey, bucket, oldState, moved, now, ret, mode, nCalls>>

\* for range ticker.C { now := time.Now().Unix() ; rl.visitors.Range(...)
SweepStart ==
    /\ sweepPc = "sleep"
    /\ limiterSet
    /\ clock - lastSweep >= SweepPeriod
    /\ lastSweep' = clock
    /\ sweepNow' = clock
    /\ sweepTodo' = { k \in Keys : visitors["login"][k] # NoBucket }
    /\ sweepPc' = "range"
    /\ UNCHANGED otherThanLimiter
    /\ UNCHANGED <<clock, nTicks, limiterSet, visitors, buckets, nBuckets, callerVars,
                   sweepKey, granted, evictedFresh, scn, avail0>>

\* the Range callback on key k: lastTime := bucket.getLastTime() ; if now-lastTime > 600
SweepVisit(k) ==
    /\ sweepPc = "range"
    /\ k \in sweepTodo
    /\ sweepTodo' = sweepTodo \ {k}
    /\ IF /\ visitors["login"][k] # NoBucket
          /\ sweepNow - getLastTime(buckets[visitors["login"][k]]) > IdleWindow
       THEN sweepPc' = "delete" /\ sweepKey' = k
       ELSE UNCHANGED <<sweepPc, sweepKey>>
    /\ UNCHANGED otherThanLimiter
    /\ UNCHANGED <<clock, nTicks, limiterSet, visitors, buckets, nBuckets, callerVars,
                   sweepNow, lastSweep, granted, evictedFresh, scn, avail0>>

\* rl.visitors.Delete(key)
SweepDelete ==
    /\ sweepPc = "delete"
    /\ visitors' = [visitors EXCEPT !["login"][sweepKey] = NoBucket]
    /\ evictedFresh' =
          (\/ evictedFresh
           \/ /\ visitors["login"][sweepKey] # NoBucket
              /\ sweepNow - getLastTime(buckets[visitors["login"][sweepKey]]) <= IdleWindow)
    /\ sweepPc' = "range"
    /\ UNCHANGED otherThanLimiter
    /\ UNCHANGED <<clock, nTicks, limiterSet, buckets, nBuckets, callerVars, sweepNow,
                   sweepTodo, sweepKey, lastSweep, granted, scn, avail0>>

\* Range has visited every key: back to waiting for the ticker
SweepEnd ==
    /\ sweepPc = "range"
    /\ sweepTodo = {}
    /\ sweepPc' = "sleep"
    /\ UNCHANGED otherThanLimiter
    /\ UNCHANGED <<clock, nTicks, limiterSet, visitors, buckets, nBuckets, callerVars,
                   sweepNow, sweepTodo, sweepKey, lastSweep, granted, evictedFresh,
                   scn, avail0>>

(***************************************************************************)
(* The clock                                                               *)
(***************************************************************************)
TickSteps == {12, 301}

\* clock readings of the sequential specification
SeqClocks == {0, 1, 12, 13}

\* the wall clock advances by d seconds
Tick(d) ==
    /\ nTicks < MaxTicks
    /\ nTicks' = nTicks + 1
    /\ clock' = clock + d
    /\ granted' = [k \in Keys |-> 0]
    /\ UNCHANGED otherThanLimiter
    /\ UNCHANGED <<limiterSet, visitors, buckets, nBuckets, callerVars, sweepVars,
                   evictedFresh, scn, avail0>>

\* the wall clock is set to t (forward or backward)
ClockSet(t) ==
    /\ t # clock
    /\ clock' = t
    /\ granted' = [k \in Keys |-> 0]
    /\ UNCHANGED otherThanLimiter
    /\ UNCHANGED <<nTicks, limiterSet, visitors, buckets, nBuckets, callerVars,
                   sweepVars, evictedFresh, scn, avail0>>

(***************************************************************************)
(* HTTP server: requests                                                   *)
(***************************************************************************)
jwtExpiration == 86400

Usernames == {"admin", "op"}

\* a string that is not a parsable JWT
Garbage == [wellFormed |-> FALSE, sig |-> "forged", exp |-> 0, role |-> "", username |-> ""]

Token(sig, exp, role, username) ==
    [wellFormed |-> TRUE, sig |-> sig, exp |-> exp, role |-> role, username |-> username]

\* parsable tokens: signed with jwtSecret or not, expired or not, with their claims
Tokens ==
    { Token("valid", jwtExpiration, "admin", u) : u \in Usernames }
        \cup { Token("valid", jwtExpiration, "user", u) : u \in Usernames }
        \cup { Token("valid", 0, "admin", "admin"), Token("forged", jwtExpiration, "admin", "admin") }

\* the Authorization header: the number of its space-separated parts, and the second one
AuthHeaders ==
    { [parts |-> n, token |-> Garbage] : n \in {0, 1, 3} }
        \cup { [parts |-> 2, token |-> t] : t \in Tokens \cup {Garbage} }

Str(s) == [isString |-> TRUE, s |-> s]
NotStr == [isString |-> FALSE, s |-> ""]

\* JSON bodies sent to /v1/rcon (command: absent, a string, an array, another type)
NoBody == [valid |-> TRUE, kind |-> "null", str |-> "", arr |-> <<>>]
RconBodies ==
    { [valid |-> FALSE, kind |-> "null", str |-> "", arr |-> <<>>],
      NoBody,
      [valid |-> TRUE, kind |-> "string", str |-> "", arr |-> <<>>],
      [valid |-> TRUE, kind |-> "string", str |-> "status", arr |-> <<>>],
      [valid |-> TRUE, kind |-> "array", str |-> "", arr |-> <<>>],
      [valid |-> TRUE, kind |-> "array", str |-> "", arr |-> <<Str("map de_dust"), Str("status")>>],
      [valid |-> TRUE, kind |-> "array", str |-> "", arr |-> <<Str(""), NotStr, Str("kick")>>],
      [valid |-> TRUE, kind |-> "number", str |-> "", arr |-> <<>>] }

\* JSON bodies sent to POST /v1/auth
NoCreds == [valid |-> TRUE, username |-> "", passwordHash |-> ""]
PasswordHashes == {"", "sha512(secret+salt)", "sha512(guess+salt)"}
LoginBodies ==
    { [valid |-> FALSE, username |-> "", passwordHash |-> ""] }
        \cup [valid : {TRUE}, username : Usernames \cup {""}, passwordHash : PasswordHashes]

NoHeader == [parts |-> 0, token |-> Garbage]

Request(path, method, hdr, body, creds) ==
    [path |-> path, method |-> method, ip |-> "ip1", hdr |-> hdr, body |-> body,
     creds |-> creds]

Requests ==
    { Request("/v1/rcon", m, h, b, NoCreds) :
          m \in {"GET", "POST"}, h \in AuthHeaders, b \in RconBodies }
    \cup { Request("/v1/auth", "POST", NoHeader, NoBody, c) : c \in LoginBodies }
    \cup { Request("/v1/auth", m, NoHeader, NoBody, NoCreds) : m \in {"GET", "PUT"} }
    \cup { Request(p, "GET", NoHeader, NoBody, NoCreds) :
          p \in {"/websocket/logs", "/admin", "/admin/", "/v1/config", "/websocket",
                 "/index.html"} }

NoRequest == Request("", "", NoHeader, NoBody, NoCreds)

\* a response: its status line (or "panic": the handler goroutine panicked and
\* net/http dropped the connection without a response), the commands handed
\* to the engine while serving it, and the token a login returned
Reply(r, status) ==
    [req |-> r, status |-> status, executed |-> <<>>, token |-> Garbage, body |-> "",
     compared |-> <<>>]

\* http.Error(w, error, code)
Error(r, error, code) == [Reply(r, code) EXCEPT !.body = error]

(***************************************************************************)
(* auth.go                                                                 *)
(***************************************************************************)
\* adminPassword == "" || adminUsername == ""
Disabled == adminPassword = "" \/ adminUsername = ""

\* computePasswordHash(password, salt): the hash is kept symbolic
computePasswordHash(password, salt) == "sha512(" \o password \o "+" \o salt \o ")"

\* checkCredentials (handlers.go:36-47)
checkCredentials(username, passwordHash) ==
    LET usernameMatch == username = adminUsername
        hashMatch == passwordHash = computePasswordHash(adminPassword, "salt")
    IN usernameMatch /\ hashMatch

\* comparisons that stop at the first mismatch
ComparisonsUntilMismatch(username, passwordHash) ==
    IF username = adminUsername THEN <<"username", "passwordHash">> ELSE <<"username">>

\* checkCredentials (handlers.go:36-47): the subtle.ConstantTimeCompare calls
\* it makes, in order
Comparisons(username, passwordHash) == <<"username", "passwordHash">>

\* generateToken (auth.go:66-80)
generateToken(username) ==
    [wellFormed |-> TRUE, sig |-> "valid", exp |-> clock + jwtExpiration,
     role |-> "admin", username |-> username]

\* a validateToken that does not look at the expiry
validateTokenAnyTime(t) == t.wellFormed /\ t.sig = "valid"

\* validateToken (auth.go:83-98): jwt.ParseWithClaims fails on a string that
\* is no JWT, on a signature not made with jwtSecret and on a passed expiry
validateToken(t) == t.wellFormed /\ t.sig = "valid" /\ clock < t.exp

\* extractToken (auth.go:101-107): the second of exactly two parts, else ""
extractToken(r) == IF r.hdr.parts = 2 THEN r.hdr.token ELSE Garbage
HasToken(r) == r.hdr.parts = 2

\* the strings of a command array that are handed to ExecuteCommand
RECURSIVE Commands(_)
Commands(arr) ==
    IF arr = <<>> THEN <<>>
    ELSE IF Head(arr).isString /\ Head(arr).s # ""
         THEN <<Head(arr).s>> \o Commands(Tail(arr))
         ELSE Commands(Tail(arr))

\* rconHandler (handlers.go:64-111)
rconHandler(r) ==
    IF r.method # "POST" THEN Reply(r, "405")
    ELSE IF ~r.body.valid THEN Reply(r, "400")
    ELSE IF r.body.kind = "null" THEN Reply(r, "400")
    ELSE IF r.body.kind = "string"
         THEN IF r.body.str = "" THEN Reply(r, "400")
              ELSE [Reply(r, "204") EXCEPT !.executed = <<r.body.str>>]
    ELSE IF r.body.kind = "array"
         THEN IF r.body.arr = <<>> THEN Reply(r, "400")
              ELSE [Reply(r, "204") EXCEPT !.executed = Commands(r.body.arr)]
    ELSE Reply(r, "400")

\* mutant: the username of the token is not compared with the operator's
authMiddlewareAnyUser(r) ==
    IF Disabled THEN Reply(r, "503")
    ELSE IF ~HasToken(r) THEN Reply(r, "401")
    ELSE IF ~validateToken(extractToken(r)) THEN Reply(r, "401")
    ELSE IF extractToken(r).role # "admin" THEN Reply(r, "403")
    ELSE rconHandler(r)

\* authMiddleware(rconHandler) (auth.go:189-228)
authMiddleware(r) ==
    IF Disabled THEN Reply(r, "503")
    ELSE IF ~HasToken(r) THEN Reply(r, "401")
    ELSE IF ~validateToken(extractToken(r)) THEN Reply(r, "401")
    ELSE IF extractToken(r).role # "admin" THEN Reply(r, "403")
    ELSE IF extractToken(r).username # adminUsername THEN Reply(r, "401")
    ELSE rconHandler(r)

\* loginHandler (auth.go:110-166)
loginHandler(r) ==
    IF Disabled THEN Reply(r, "503")
    ELSE IF r.method # "POST" THEN Reply(r, "405")
    ELSE IF ~r.creds.valid THEN Reply(r, "400")
    ELSE IF r.creds.username = "" THEN Reply(r, "400")
    ELSE IF r.creds.passwordHash = "" THEN Reply(r, "400")
    ELSE IF ~checkCredentials(r.creds.username, r.creds.passwordHash)
         THEN [Error(r, "Invalid username or password", "401") EXCEPT
                   !.compared = Comparisons(r.creds.username, r.creds.passwordHash)]
    ELSE [Reply(r, "200") EXCEPT !.token = generateToken(r.creds.username),
                                 !.compared = Comparisons(r.creds.username,
                                                          r.creds.passwordHash)]

\* saltHandler (auth.go:168-187)
saltHandler(r) ==
    IF Disabled THEN Reply(r, "503")
    ELSE IF r.method # "GET" THEN Reply(r, "405")
    ELSE Reply(r, "200")

\* adminHandler (handlers.go:128-142); found: public/admin/index.html exists
adminHandler(r, found) ==
    IF Disabled THEN Reply(r, "503")
    ELSE IF ~found THEN Reply(r, "404")
    ELSE Reply(r, "200")

\* logsWebSocketHandler up to the upgrade (handlers.go:145-157)
logsUpgrade(r, upgraded) ==
    IF Disabled THEN Reply(r, "503")
    ELSE IF ~upgraded THEN Reply(r, "400")
    ELSE Reply(r, "101")

(***************************************************************************)
(* RateLimiter.Middleware (part_003:124-136) around a handler, run to its  *)
(* end by one request: Allow(ip) on limiter l, then 429 or next(w, r).     *)
(* In the disabled state init() (sfu.go:35-49) leaves both limiters nil,   *)
(* and rl.Allow dereferences rl (rl.capacity): the goroutine panics.       *)
(***************************************************************************)
Middleware(l, r, next) ==
    IF ~limiterSet
    THEN /\ resp' = Reply(r, "panic")
         /\ UNCHANGED <<visitors, buckets, nBuckets>>
    ELSE LET k == r.ip
             fresh == visitors[l][k] = NoBucket
             b == IF fresh THEN nBuckets + 1 ELSE visitors[l][k]
             st == IF fresh THEN newAtomicTokenBucket(l, clock) ELSE buckets[b]
         IN /\ fresh => nBuckets < MaxBuckets
            /\ nBuckets' = IF fresh THEN nBuckets + 1 ELSE nBuckets
            /\ visitors' = [visitors EXCEPT ![l][k] = b]
            /\ IF CanConsume(st, clock, l)
               THEN /\ \E newState \in NewStates(st, clock, l) :
                          buckets' = [buckets EXCEPT ![b] = newState]
                    /\ resp' = next
               ELSE /\ buckets' = [buckets EXCEPT ![b] = st]
                    /\ resp' = Reply(r, "429")

(***************************************************************************)
(* Server.ServeHTTP (part_004:25-75): one action per route                 *)
(***************************************************************************)
httpFrame == UNCHANGED <<clock, limiterSet, adminPassword, adminUsername, otherThanHttp>>

\* case "/v1/auth", GET
ServeSalt(r) ==
    /\ r.path = "/v1/auth" /\ r.method = "GET"
    /\ resp' = saltHandler(r)
    /\ UNCHANGED <<visitors, buckets, nBuckets>>
    /\ httpFrame

\* case "/v1/auth", POST
ServeLogin(r) ==
    /\ r.path = "/v1/auth" /\ r.method = "POST"
    /\ Middleware("login", r, loginHandler(r))
    /\ httpFrame

\* case "/v1/auth", default
ServeAuthOther(r) ==
    /\ r.path = "/v1/auth" /\ r.method \notin {"GET", "POST"}
    /\ resp' = Reply(r, "405")
    /\ UNCHANGED <<visitors, buckets, nBuckets>>
    /\ httpFrame

\* case "/v1/config"
ServeConfig(r) ==
    /\ r.path = "/v1/config"
    /\ resp' = Reply(r, "200")
    /\ UNCHANGED <<visitors, buckets, nBuckets>>
    /\ httpFrame

\* case "/v1/rcon"
ServeRcon(r) ==
    /\ r.path = "/v1/rcon"
    /\ Middleware("rcon", r, authMiddleware(r))
    /\ httpFrame

\* case "/websocket/logs"
ServeLogs(r) ==
    /\ r.path = "/websocket/logs"
    /\ \E upgraded \in BOOLEAN : resp' = logsUpgrade(r, upgraded)
    /\ UNCHANGED <<visitors, buckets, nBuckets>>
    /\ httpFrame

\* case "/admin", "/admin/"
ServeAdmin(r) ==
    /\ r.path \in {"/admin", "/admin/"}
    /\ \E found \in BOOLEAN : resp' = adminHandler(r, found)
    /\ UNCHANGED <<visitors, buckets, nBuckets>>
    /\ httpFrame

\* case "/websocket": the signaling handler upgrades the connection
ServeSignaling(r) ==
    /\ r.path = "/websocket"
    /\ \E upgraded \in BOOLEAN : resp' = Reply(r, IF upgraded THEN "101" ELSE "400")
    /\ UNCHANGED <<visitors, buckets, nBuckets>>
    /\ httpFrame

\* default: a file of the public directory
ServeStatic(r) ==
    /\ r.path \notin {"/websocket", "/v1/auth", "/v1/config", "/v1/rcon",
                      "/websocket/logs", "/admin", "/admin/"}
    /\ \E found \in BOOLEAN : resp' = Reply(r, IF found THEN "200" ELSE "404")
    /\ UNCHANGED <<visitors, buckets, nBuckets>>
    /\ httpFrame

InitHttpIdle ==
    /\ adminPassword = "secret"
    /\ adminUsername = "admin"
    /\ resp = Reply(NoRequest, "")

(***************************************************************************)
(* Address pool (goxash3d_fwgs.BytesPool, part_002:183)                    *)
(*                                                                         *)
(* The pool is a set of available indices.  TryGet takes one out, or       *)
(* fails when none is left; the index it returns with ok = FALSE is        *)
(* whatever byte the library returns then, and every byte is an index.     *)
(* TryPut makes an index available.                                        *)
(***************************************************************************)
Indices == 0..(PoolSize - 1)
Sessions == 1..MaxSessions
NoSession == 0

NewBytesPool == Indices

\* the results (index, ok, pool afterwards) TryGet can have
TryGet(p) ==
    IF p = {}
    THEN { [index |-> i, ok |-> FALSE, pool |-> p] : i \in Indices }
    ELSE { [index |-> i, ok |-> TRUE, pool |-> p \ {i}] : i \in p }

TryPut(p, i) == p \cup {i}

(***************************************************************************)
(* websocketHandler (config.go:335-546) and ReadLoop (config.go:311-332)   *)
(***************************************************************************)
sfuFrame == UNCHANGED otherThanSfu

\* the session holds its index: from pool.TryGet() to the deferred pool.TryPut
Live(s) == sessPc[s] \in {"loop", "closeWrite", "closeRead", "put"}

\* lines 335-488: upgrade, NewPeerConnection, index, _ := pool.TryGet(),
\* the "write" data channel, append to peerConnections
Connect(s) ==
    /\ sessPc[s] = "new"
    /\ \E g \in TryGet(pool) :
          /\ pool' = g.pool
          /\ sessIndex' = [sessIndex EXCEPT ![s] = g.index]
          /\ sessOk' = [sessOk EXCEPT ![s] = g.ok]
    /\ writeChannel' = [writeChannel EXCEPT ![s] = "created"]
    /\ peerConnections' = peerConnections \cup {s}
    /\ sessPc' = [sessPc EXCEPT ![s] = "loop"]
    /\ UNCHANGED <<readChannel, readLoop, nRead, connections, putBy, pushedAfterRelease>>
    /\ sfuFrame

\* lines 382-394: CreateDataChannel("write") fails after pool.TryGet();
\* the handler returns, its deferred calls run
ConnectFailed(s) ==
    /\ sessPc[s] = "new"
    /\ \E g \in TryGet(pool) :
          /\ pool' = g.pool
          /\ sessIndex' = [sessIndex EXCEPT ![s] = g.index]
          /\ sessOk' = [sessOk EXCEPT ![s] = g.ok]
    /\ sessPc' = [sessPc EXCEPT ![s] = "put"]
    /\ UNCHANGED <<writeChannel, readChannel, readLoop, nRead, connections,
                   peerConnections, putBy, pushedAfterRelease>>
    /\ sfuFrame

\* lines 401-424: writeChannel.OnOpen
WriteOpen(s) ==
    /\ sessPc[s] = "loop"
    /\ writeChannel[s] = "created"
    /\ writeChannel' = [writeChannel EXCEPT ![s] = "open"]
    /\ connections' = [connections EXCEPT ![sessIndex[s]] = s]
    /\ readChannel' = [readChannel EXCEPT ![s] = "created"]
    /\ UNCHANGED <<pool, sessPc, sessIndex, sessOk, readLoop, nRead, peerConnections,
                   putBy, pushedAfterRelease>>
    /\ sfuFrame

\* lines 418-424: readChannel.OnOpen: go ReadLoop(d, ip)
ReadOpen(s) ==
    /\ readChannel[s] = "created"
    /\ readChannel' = [readChannel EXCEPT ![s] = "open"]
    /\ readLoop' = [readLoop EXCEPT ![s] = "read"]
    /\ UNCHANGED <<pool, sessPc, sessIndex, sessOk, writeChannel, nRead, connections,
                   peerConnections, putBy, pushedAfterRelease>>
    /\ sfuFrame

\* ReadLoop, line 315: d.Read(buffer) returns a packet
RLRead(s) ==
    /\ readLoop[s] = "read"
    /\ readChannel[s] = "open"
    /\ nRead[s] < MaxPackets
    /\ nRead' = [nRead EXCEPT ![s] = @ + 1]
    /\ readLoop' = [readLoop EXCEPT ![s] = "push"]
    /\ UNCHANGED <<pool, sessPc, sessIndex, sessOk, writeChannel, readChannel,
                   connections, peerConnections, putBy, pushedAfterRelease>>
    /\ sfuFrame

\* ReadLoop, lines 322-330: net.PushPacket with Addr.IP[0] = index
RLPush(s) ==
    /\ readLoop[s] = "push"
    /\ readLoop' = [readLoop EXCEPT ![s] = "read"]
    /\ pushedAfterRelease' = (pushedAfterRelease \/ s \in putBy)
    /\ UNCHANGED <<pool, sessPc, sessIndex, sessOk, writeChannel, readChannel, nRead,
                   connections, peerConnections, putBy>>
    /\ sfuFrame

\* ReadLoop, lines 316-320: d.Read fails on the closed channel
RLExit(s) ==
    /\ readLoop[s] = "read"
    /\ readChannel[s] = "closed"
    /\ readLoop' = [readLoop EXCEPT ![s] = "exit"]
    /\ UNCHANGED <<pool, sessPc, sessIndex, sessOk, writeChannel, readChannel, nRead,
                   connections, peerConnections, putBy, pushedAfterRelease>>
    /\ sfuFrame

\* lines 497-545: c.ReadMessage (or the handling of a message) fails: return
Disconnect(s) ==
    /\ sessPc[s] = "loop"
    /\ sessPc' = [sessPc EXCEPT ![s] = "closeWrite"]
    /\ UNCHANGED <<pool, sessIndex, sessOk, writeChannel, readChannel, readLoop, nRead,
                   connections, peerConnections, putBy, pushedAfterRelease>>
    /\ sfuFrame

\* deferred, line 426: writeChannel.Close()
CloseWrite(s) ==
    /\ sessPc[s] = "closeWrite"
    /\ writeChannel' = [writeChannel EXCEPT ![s] = "closed"]
    /\ sessPc' = [sessPc EXCEPT ![s] = "closeRead"]
    /\ UNCHANGED <<pool, sessIndex, sessOk, readChannel, readLoop, nRead, connections,
                   peerConnections, putBy, pushedAfterRelease>>
    /\ sfuFrame

\* deferred, lines 396-400: readChannel.Close() unless readChannel is nil
CloseRead(s) ==
    /\ sessPc[s] = "closeRead"
    /\ readChannel' = [readChannel EXCEPT ![s] = IF @ = "nil" THEN "nil" ELSE "closed"]
    /\ sessPc' = [sessPc EXCEPT ![s] = "put"]
    /\ UNCHANGED <<pool, sessIndex, sessOk, writeChannel, readLoop, nRead, connections,
                   peerConnections, putBy, pushedAfterRelease>>
    /\ sfuFrame

\* deferred, line 384: pool.TryPut(index)
Put(s) ==
    /\ sessPc[s] = "put"
    /\ pool' = TryPut(pool, sessIndex[s])
    /\ putBy' = putBy \cup {s}
    /\ sessPc' = [sessPc EXCEPT ![s] = "closePC"]
    /\ UNCHANGED <<sessIndex, sessOk, writeChannel, readChannel, readLoop, nRead,
                   connections, peerConnections, pushedAfterRelease>>
    /\ sfuFrame

\* deferred: peerConnection.Close() and c.Close(); every channel of the
\* connection is closed with it
ClosePC(s) ==
    /\ sessPc[s] = "closePC"
    /\ writeChannel' = [writeChannel EXCEPT ![s] = IF @ = "nil" THEN "nil" ELSE "closed"]
    /\ readChannel' = [readChannel EXCEPT ![s] = IF @ = "nil" THEN "nil" ELSE "closed"]
    /\ sessPc' = [sessPc EXCEPT ![s] = "closed"]
    /\ UNCHANGED <<pool, sessIndex, sessOk, readLoop, nRead, connections,
                   peerConnections, putBy, pushedAfterRelease>>
    /\ sfuFrame

InitSfuIdle ==
    /\ pool = NewBytesPool
    /\ sessPc = [s \in Sessions |-> "new"]
    /\ sessIndex = [s \in Sessions |-> 0]
    /\ sessOk = [s \in Sessions |-> FALSE]
    /\ writeChannel = [s \in Sessions |-> "nil"]
    /\ readChannel = [s \in Sessions |-> "nil"]
    /\ readLoop = [s \in Sessions |-> "none"]
    /\ nRead = [s \in Sessions |-> 0]
    /\ connections = [i \in Indices |-> NoSession]
    /\ peerConnections = {}
    /\ putBy = {}
    /\ pushedAfterRelease = FALSE

(***************************************************************************)
(* CircularBuffer (logging.go:17-74)                                       *)
(***************************************************************************)
Lines == 1..MaxLines
NoLine == 0
Subscribers == 1..MaxSubscribers

\* NewCircularBuffer(capacity)
NewCircularBuffer(capacity) ==
    [buffer |-> [i \in 0..(capacity - 1) |-> NoLine], capacity |-> capacity,
     head |-> 0, size |-> 0]

\* CircularBuffer.Add
Add(b, entry) ==
    [buffer |-> [b.buffer EXCEPT ![b.head] = entry],
     capacity |-> b.capacity,
     head |-> (b.head + 1) % b.capacity,
     size |-> IF b.size < b.capacity THEN b.size + 1 ELSE b.size]

\* a copy that starts at head whatever the size
GetAllCopyFromHead(b, size, head) ==
    [i \in 1..size |-> b.buffer[(head + i - 1) % b.capacity]]

\* CircularBuffer.GetAll, lines 60-71: the copy, made with the size and head
\* read under the first lock
GetAllCopy(b, size, head) ==
    LET start == IF head - size < 0 THEN head - size + b.capacity ELSE head - size
    IN [i \in 1..size |-> b.buffer[(start + i - 1) % b.capacity]]

\* CircularBuffer.GetAll called while no Add runs: nil for an empty buffer
GetAll(b) == IF b.size = 0 THEN <<>> ELSE GetAllCopy(b, b.size, b.head)

Range(f) == { f[i] : i \in DOMAIN f }

(***************************************************************************)
(* Log fan-out: broadcastLog, Logger.broadcast, logBroadcaster,            *)
(* sendHistory and the subscriber part of logsWebSocketHandler             *)
(***************************************************************************)
logFrame == UNCHANGED otherThanLog

\* select { case ch <- message: default: }
Offer(ch, cap, line) == IF Len(ch) < cap THEN Append(ch, line) ELSE ch

\* subscribers whose history snapshot is complete and who wait for live lines
SnapshotTaken(c) == subPc[c] \in {"register", "live"}

\* a publisher starts to publish line l
StartsLine(l) ==
    /\ pubPc = "idle"
    /\ nPublished < MaxLines
    /\ l = nPublished + 1
    /\ nPublished' = l
    /\ pubLine' = l
    /\ afterSnapshot' = [c \in Subscribers |->
                            IF SnapshotTaken(c) THEN afterSnapshot[c] \cup {l}
                            ELSE afterSnapshot[c]]

\* broadcastLog, lines 108-110: logBuffer.Add(entry)
BroadcastLogAdd ==
    /\ \E l \in Lines : StartsLine(l) /\ logBuffer' = Add(logBuffer, l)
    /\ pubPc' = "broadcastLog:offer"
    /\ UNCHANGED <<logBroadcast, logClients, clientChan, dispPc, dispMsg, subPc, subSize,
                   subHead, history, delivered, offered, dropped, published>>
    /\ UNCHANGED <<dequeued, droppedBroadcast, sent, authGood>>
    /\ logFrame

\* mutant: a blocking send, which waits until logBroadcast has room
BroadcastLogOfferBlocking ==
    /\ pubPc = "broadcastLog:offer"
    /\ Len(logBroadcast) < BroadcastCapacity
    /\ logBroadcast' = Append(logBroadcast, pubLine)
    /\ published' = published \cup {pubLine}
    /\ pubPc' = "idle"
    /\ UNCHANGED <<logBuffer, logClients, clientChan, dispPc, dispMsg, subPc, subSize,
                   subHead, history, delivered, offered, nPublished, pubLine,
                   afterSnapshot, dropped>>
    /\ UNCHANGED <<dequeued, droppedBroadcast, sent, authGood>>
    /\ logFrame

\* broadcastLog, lines 113-117: non-blocking send to logBroadcast
BroadcastLogOffer ==
    /\ pubPc = "broadcastLog:offer"
    /\ logBroadcast' = Offer(logBroadcast, BroadcastCapacity, pubLine)
    /\ dropped' = IF Len(logBroadcast) < BroadcastCapacity THEN dropped
                  ELSE dropped \cup {pubLine}
    /\ published' = published \cup {pubLine}
    /\ pubPc' = "idle"
    /\ UNCHANGED <<logBuffer, logClients, clientChan, dispPc, dispMsg, subPc, subSize,
                   subHead, history, delivered, offered, nPublished, pubLine,
                   afterSnapshot>>
    /\ droppedBroadcast' = IF Len(logBroadcast) < BroadcastCapacity THEN droppedBroadcast
                           ELSE droppedBroadcast \cup {pubLine}
    /\ UNCHANGED <<dequeued, sent, authGood>>
    /\ logFrame

\* Logger.broadcast (part_002:56-62): non-blocking send to logBroadcast
LoggerOffer ==
    /\ \E l \in Lines :
          /\ StartsLine(l)
          /\ logBroadcast' = Offer(logBroadcast, BroadcastCapacity, l)
          /\ dropped' = IF Len(logBroadcast) < BroadcastCapacity THEN dropped
                        ELSE dropped \cup {l}
    /\ pubPc' = "Logger.broadcast:add"
    /\ UNCHANGED <<logBuffer, logClients, clientChan, dispPc, dispMsg, subPc, subSize,
                   subHead, history, delivered, offered, published>>
    /\ droppedBroadcast' = IF Len(logBroadcast) < BroadcastCapacity THEN droppedBroadcast
                           ELSE droppedBroadcast \cup {nPublished + 1}
    /\ UNCHANGED <<dequeued, sent, authGood>>
    /\ logFrame

\* Logger.broadcast (part_002:65-70): logBuffer.Add
LoggerAdd ==
    /\ pubPc = "Logger.broadcast:add"
    /\ logBuffer' = Add(logBuffer, pubLine)
    /\ published' = published \cup {pubLine}
    /\ pubPc' = "idle"
    /\ UNCHANGED <<logBroadcast, logClients, clientChan, dispPc, dispMsg, subPc, subSize,
                   subHead, history, delivered, offered, dropped, nPublished, pubLine,
                   afterSnapshot>>
    /\ UNCHANGED <<dequeued, droppedBroadcast, sent, authGood>>
    /\ logFrame

\* logBroadcaster, line 86: message := <-logBroadcast
Dequeue ==
    /\ dispPc = "receive"
    /\ logBroadcast # <<>>
    /\ dispMsg' = Head(logBroadcast)
    /\ logBroadcast' = Tail(logBroadcast)
    /\ dispPc' = "fanout"
    /\ UNCHANGED <<logBuffer, logClients, clientChan, subPc, subSize, subHead, history,
                   delivered, offered, dropped, published, nPublished, pubLine, pubPc,
                   afterSnapshot>>
    /\ dequeued' = Append(dequeued, Head(logBroadcast))
    /\ UNCHANGED <<droppedBroadcast, sent, authGood>>
    /\ logFrame

\* mutant: the fan-out stops at the first subscriber whose queue is full
FanOutUntilFull ==
    LET full(c) == c \in logClients /\ Len(clientChan[c]) >= ClientCapacity
        reached(c) == c \in logClients /\ \A c2 \in 1..c : ~full(c2)
    IN
    /\ dispPc = "fanout"
    /\ clientChan' = [c \in Subscribers |->
                         IF reached(c) THEN Append(clientChan[c], dispMsg)
                         ELSE clientChan[c]]
    /\ offered' = [c \in Subscribers |->
                      IF reached(c) THEN offered[c] \cup {dispMsg} ELSE offered[c]]
    /\ dropped' = dropped \cup { l \in {dispMsg} : \E c \in logClients : full(c) }
    /\ dispPc' = "receive"
    /\ UNCHANGED <<logBuffer, logBroadcast, logClients, dispMsg, subPc, subSize, subHead,
                   history, delivered, published, nPublished, pubLine, pubPc,
                   afterSnapshot>>
    /\ UNCHANGED <<dequeued, droppedBroadcast, sent, authGood>>
    /\ logFrame

\* logBroadcaster, lines 87-96: under logClientsMux.RLock, a non-blocking send
\* to every registered client
FanOut ==
    /\ dispPc = "fanout"
    /\ clientChan' = [c \in Subscribers |->
                         IF c \in logClients
                         THEN Offer(clientChan[c], ClientCapacity, dispMsg)
                         ELSE clientChan[c]]
    /\ offered' = [c \in Subscribers |->
                      IF c \in logClients /\ Len(clientChan[c]) < ClientCapacity
                      THEN offered[c] \cup {dispMsg} ELSE offered[c]]
    /\ dropped' = dropped \cup
                      { l \in {dispMsg} :
                            \E c \in logClients : Len(clientChan[c]) >= ClientCapacity }
    /\ dispPc' = "receive"
    /\ UNCHANGED <<logBuffer, logBroadcast, logClients, dispMsg, subPc, subSize, subHead,
                   history, delivered, published, nPublished, pubLine, pubPc,
                   afterSnapshot>>
    /\ UNCHANGED <<dequeued, droppedBroadcast, sent, authGood>>
    /\ logFrame

\* the first message of a /websocket/logs connection, or none within the
\* 5 seconds of the read deadline
AuthMessages ==
    { [read |-> FALSE, event |-> "", hasToken |-> FALSE, token |-> Garbage] }
        \cup { [read |-> TRUE, event |-> e, hasToken |-> FALSE, token |-> Garbage] :
                   e \in {"v1:auth", "v1:ping"} }
        \cup { [read |-> TRUE, event |-> e, hasToken |-> TRUE, token |-> t] :
                   e \in {"v1:auth", "v1:ping"}, t \in Tokens \cup {Garbage} }

\* mutant: the role of the token is not checked
AuthAcceptedAnyRole(msg) ==
    /\ msg.read
    /\ msg.event = "v1:auth" /\ msg.hasToken
    /\ validateToken(msg.token)
    /\ msg.token.username = adminUsername

\* logsWebSocketHandler, handlers.go:162-201: the checks of the first message
AuthAccepted(msg) ==
    /\ msg.read
    /\ msg.event = "v1:auth" /\ msg.hasToken
    /\ validateToken(msg.token)
    /\ msg.token.role = "admin"
    /\ msg.token.username = adminUsername

\* what a connection must present: a v1:auth message carrying an unexpired
\* token signed by the server, of role admin and of the operator's username
OperatorAuth(msg) ==
    /\ msg.read /\ msg.event = "v1:auth" /\ msg.hasToken
    /\ msg.token.wellFormed /\ msg.token.sig = "valid" /\ clock < msg.token.exp
    /\ msg.token.role = "admin" /\ msg.token.username = adminUsername

\* logsWebSocketHandler after the upgrade, handlers.go:159-210: read the
\* first message; write v1:error and close, or write the v1:auth reply
LogsAuth(c, msg) ==
    /\ subPc[c] = "new"
    /\ authGood' = [authGood EXCEPT ![c] = IF OperatorAuth(msg) THEN "good" ELSE "bad"]
    /\ IF AuthAccepted(msg)
       THEN /\ sent' = [sent EXCEPT ![c] = Append(@, "v1:auth")]
            /\ subPc' = [subPc EXCEPT ![c] = "history"]
       ELSE /\ sent' = [sent EXCEPT ![c] = Append(@, "v1:error")]
            /\ subPc' = [subPc EXCEPT ![c] = "gone"]
    /\ UNCHANGED <<logBuffer, logBroadcast, logClients, clientChan, dispPc, dispMsg,
                   subSize, subHead, history, delivered, offered, dropped, published,
                   nPublished, pubLine, pubPc, afterSnapshot, dequeued, droppedBroadcast>>
    /\ logFrame

\* sendHistory -> GetAll, logging.go:49-56: size and head read under RLock;
\* with size == 0 GetAll returns nil and sendHistory writes nothing
HistorySizes(c) ==
    /\ subPc[c] = "history"
    /\ subSize' = [subSize EXCEPT ![c] = logBuffer.size]
    /\ subHead' = [subHead EXCEPT ![c] = logBuffer.head]
    /\ subPc' = [subPc EXCEPT ![c] = IF logBuffer.size = 0 THEN "register" ELSE "copy"]
    /\ UNCHANGED <<logBuffer, logBroadcast, logClients, clientChan, dispPc, dispMsg,
                   history, delivered, offered, dropped, published, nPublished, pubLine,
                   pubPc, afterSnapshot>>
    /\ UNCHANGED <<dequeued, droppedBroadcast, sent, authGood>>
    /\ logFrame

\* GetAll, logging.go:58-73, and sendHistory's WriteJSON of the history message
\* (logging.go:126-140)
HistoryCopy(c) ==
    /\ subPc[c] = "copy"
    /\ history' = [history EXCEPT ![c] = GetAllCopy(logBuffer, subSize[c], subHead[c])]
    /\ subPc' = [subPc EXCEPT ![c] = "register"]
    /\ UNCHANGED <<logBuffer, logBroadcast, logClients, clientChan, dispPc, dispMsg,
                   subSize, subHead, delivered, offered, dropped, published, nPublished,
                   pubLine, pubPc, afterSnapshot>>
    /\ sent' = [sent EXCEPT ![c] = Append(@, "v1:history")]
    /\ UNCHANGED <<dequeued, droppedBroadcast, authGood>>
    /\ logFrame

\* handlers.go:219-224: clientChan := make(chan string, 256); logClients[conn] = clientChan
Register(c) ==
    /\ subPc[c] = "register"
    /\ logClients' = logClients \cup {c}
    /\ clientChan' = [clientChan EXCEPT ![c] = <<>>]
    /\ subPc' = [subPc EXCEPT ![c] = "live"]
    /\ UNCHANGED <<logBuffer, logBroadcast, dispPc, dispMsg, subSize, subHead, history,
                   delivered, offered, dropped, published, nPublished, pubLine, pubPc,
                   afterSnapshot>>
    /\ UNCHANGED <<dequeued, droppedBroadcast, sent, authGood>>
    /\ logFrame

\* the write pump, handlers.go:242-266: message := <-clientChan; conn.WriteJSON
PumpWrite(c) ==
    /\ subPc[c] = "live"
    /\ clientChan[c] # <<>>
    /\ delivered' = [delivered EXCEPT ![c] = Append(@, Head(clientChan[c]))]
    /\ clientChan' = [clientChan EXCEPT ![c] = Tail(@)]
    /\ UNCHANGED <<logBuffer, logBroadcast, logClients, dispPc, dispMsg, subPc, subSize,
                   subHead, history, offered, dropped, published, nPublished, pubLine,
                   pubPc, afterSnapshot>>
    /\ sent' = [sent EXCEPT ![c] = Append(@, "v1:log")]
    /\ UNCHANGED <<dequeued, droppedBroadcast, authGood>>
    /\ logFrame

\* mutant: the deferred function closes the queue while the subscriber is
\* still in the table
UnregisterAfterClose(c) ==
    /\ subPc[c] = "live"
    /\ subPc' = [subPc EXCEPT ![c] = "gone"]
    /\ UNCHANGED <<logBuffer, logBroadcast, logClients, clientChan, dispPc, dispMsg,
                   subSize, subHead, history, delivered, offered, dropped, published,
                   nPublished, pubLine, pubPc, afterSnapshot>>
    /\ UNCHANGED <<dequeued, droppedBroadcast, sent, authGood>>
    /\ logFrame

\* conn.NextReader fails (handlers.go:277-281); deferred, lines 228-230:
\* logClientsMux.Lock(); delete(logClients, conn); logClientsMux.Unlock()
Unregister(c) ==
    /\ subPc[c] = "live"
    /\ logClients' = logClients \ {c}
    /\ subPc' = [subPc EXCEPT ![c] = "close"]
    /\ UNCHANGED <<logBuffer, logBroadcast, clientChan, dispPc, dispMsg, subSize, subHead,
                   history, delivered, offered, dropped, published, nPublished, pubLine,
                   pubPc, afterSnapshot>>
    /\ UNCHANGED <<dequeued, droppedBroadcast, sent, authGood>>
    /\ logFrame

\* the deferred function, handlers.go:231: close(clientChan); the write pump
\* returns (handlers.go:248-251 and 263-265): its receive from the closed
\* queue reports !ok, or its WriteJSON fails on the connection whose read has
\* failed, and the lines still queued are discarded with the queue
CloseChan(c) ==
    /\ subPc[c] = "close"
    /\ subPc' = [subPc EXCEPT ![c] = "gone"]
    /\ clientChan' = [clientChan EXCEPT ![c] = <<>>]
    /\ UNCHANGED <<logBuffer, logBroadcast, logClients, dispPc, dispMsg, subSize, subHead,
                   history, delivered, offered, dropped, published, nPublished, pubLine,
                   pubPc, afterSnapshot>>
    /\ UNCHANGED <<dequeued, droppedBroadcast, sent, authGood>>
    /\ logFrame

InitLogIdle ==
    /\ logBuffer = NewCircularBuffer(RingCapacity)
    /\ logBroadcast = <<>>
    /\ logClients = {}
    /\ clientChan = [c \in Subscribers |-> <<>>]
    /\ dispPc = "receive"
    /\ dispMsg = NoLine
    /\ subPc = [c \in Subscribers |-> "new"]
    /\ subSize = [c \in Subscribers |-> 0]
    /\ subHead = [c \in Subscribers |-> 0]
    /\ history = [c \in Subscribers |-> <<>>]
    /\ delivered = [c \in Subscribers |-> <<>>]
    /\ offered = [c \in Subscribers |-> {}]
    /\ dropped = {}
    /\ published = {}
    /\ nPublished = 0
    /\ pubLine = NoLine
    /\ pubPc = "idle"
    /\ afterSnapshot = [c \in Subscribers |-> {}]
    /\ dequeued = <<>>
    /\ droppedBroadcast = {}
    /\ sent = [c \in Subscribers |-> <<>>]
    /\ authGood = [c \in Subscribers |-> "none"]

(***************************************************************************)
(* A CircularBuffer of any capacity, used by one goroutine: Add and GetAll *)
(* calls one after the other                                               *)
(***************************************************************************)
Capacities == 1..MaxCapacity

\* cb.Add(entry)
RingAdd(entry) ==
    /\ Len(added) < MaxAdds
    /\ cb' = Add(cb, entry)
    /\ added' = Append(added, entry)
    /\ UNCHANGED <<result, seen, called>>
    /\ UNCHANGED otherThanRing

\* result := cb.GetAll()
RingGetAll ==
    /\ result' = GetAll(cb)
    /\ seen' = added
    /\ called' = TRUE
    /\ UNCHANGED <<cb, added>>
    /\ UNCHANGED otherThanRing

InitRingIdle ==
    /\ cb = NewCircularBuffer(1)
    /\ added = <<>>
    /\ result = <<>>
    /\ seen = <<>>
    /\ called = FALSE

(***************************************************************************)
(* SFUNet.SendTo and SFUNet.SendToBatch (part_002:159-181), called by the  *)
(* engine while browsers connect and disconnect.  A packet is its          *)
(* Addr.IP[0] and its Data; the writer stored for an address is the        *)
(* detached "write" channel of a session, and Write on it succeeds, with   *)
(* the length of the data, while that channel is open.                     *)
(***************************************************************************)
Payloads == {<<1>>, <<2, 3>>}
Packets == [addr : Indices, data : Payloads]
Batches == UNION { [1..n -> Packets] : n \in 0..MaxBatch }
\* the browsers of the send specification
NetPeers == {1, 2}
NoReturn == -2

\* conn.Write(packet.Data): [called, ok, nn]
Write(conn, data) ==
    [ok |-> writeChannel[conn] = "open", nn |-> Len(data)]

\* a SendTo that calls Write again when the first call failed
SendToRetrying(packet) ==
    LET conn == connections[packet.addr]
    IN IF conn = NoSession
       THEN [ret |-> -1, wrote |-> FALSE, writes |-> 0]
       ELSE IF ~Write(conn, packet.data).ok
            THEN [ret |-> -1, wrote |-> FALSE, writes |-> 2]
            ELSE [ret |-> Write(conn, packet.data).nn, wrote |-> TRUE, writes |-> 1]

\* SendTo: [ret, wrote (was the packet written), writes (calls of Write)]
SendTo(packet) ==
    LET conn == connections[packet.addr]
    IN IF conn = NoSession
       THEN [ret |-> -1, wrote |-> FALSE, writes |-> 0]
       ELSE IF ~Write(conn, packet.data).ok
            THEN [ret |-> -1, wrote |-> FALSE, writes |-> 1]
            ELSE [ret |-> Write(conn, packet.data).nn, wrote |-> TRUE, writes |-> 1]

\* the engine calls net.SendTo(fd, packet, flags)
CallSendTo(packet) ==
    /\ netPc \in {"idle", "done"}
    /\ LET r == SendTo(packet)
       IN /\ sendRet' = r.ret
          /\ wrote' = IF r.wrote THEN <<packet>> ELSE <<>>
          /\ nWrite' = r.writes
    /\ packets' = <<packet>>
    /\ nSendTo' = 1
    /\ batchPos' = 1
    /\ sum' = 0
    /\ netPc' = "done"
    /\ UNCHANGED sfuVars
    /\ UNCHANGED otherThanNet

\* the engine calls net.SendToBatch(fd, packets, flags): sum := 0
SendToBatch(ps) ==
    /\ netPc \in {"idle", "done"}
    /\ packets' = ps
    /\ batchPos' = 1
    /\ sum' = 0
    /\ sendRet' = NoReturn
    /\ wrote' = <<>>
    /\ nSendTo' = 0
    /\ nWrite' = 0
    /\ netPc' = "loop"
    /\ UNCHANGED sfuVars
    /\ UNCHANGED otherThanNet

\* one iteration that goes on with the next packet whatever SendTo returned
BatchSendToSkipping ==
    /\ netPc = "loop"
    /\ batchPos <= Len(packets)
    /\ LET r == SendTo(packets[batchPos])
       IN /\ nSendTo' = nSendTo + 1
          /\ nWrite' = nWrite + r.writes
          /\ sum' = IF r.ret = -1 THEN sum ELSE sum + r.ret
          /\ wrote' = IF r.wrote THEN Append(wrote, packets[batchPos]) ELSE wrote
          /\ batchPos' = batchPos + 1
          /\ UNCHANGED <<sendRet, netPc>>
    /\ UNCHANGED packets
    /\ UNCHANGED sfuVars
    /\ UNCHANGED otherThanNet

\* SendToBatch, lines 173-179: one iteration of the range loop
BatchSendTo ==
    /\ netPc = "loop"
    /\ batchPos <= Len(packets)
    /\ LET r == SendTo(packets[batchPos])
       IN /\ nSendTo' = nSendTo + 1
          /\ nWrite' = nWrite + r.writes
          /\ IF r.ret = -1
             THEN /\ sendRet' = -1
                  /\ netPc' = "done"
                  /\ UNCHANGED <<sum, wrote, batchPos>>
             ELSE /\ sum' = sum + r.ret
                  /\ wrote' = Append(wrote, packets[batchPos])
                  /\ batchPos' = batchPos + 1
                  /\ UNCHANGED <<sendRet, netPc>>
    /\ UNCHANGED packets
    /\ UNCHANGED sfuVars
    /\ UNCHANGED otherThanNet

\* SendToBatch, line 180: return sum
BatchReturn ==
    /\ netPc = "loop"
    /\ batchPos > Len(packets)
    /\ sendRet' = sum
    /\ netPc' = "done"
    /\ UNCHANGED <<packets, batchPos, sum, wrote, nSendTo, nWrite>>
    /\ UNCHANGED sfuVars
    /\ UNCHANGED otherThanNet

InitNetIdle ==
    /\ netPc = "idle"
    /\ packets = <<>>
    /\ batchPos = 1
    /\ sum = 0
    /\ sendRet = NoReturn
    /\ wrote = <<>>
    /\ nSendTo = 0
    /\ nWrite = 0

(***************************************************************************)
(* ReadLoop (config.go:311-332) with the bytes it moves.  The data of a    *)
(* packet is a slice: its own array (alias = NoSession, bytes) or the      *)
(* first len bytes of a peer's read buffer (alias = that peer).            *)
(***************************************************************************)
ReadPeers == {1, 2}
\* the messages a browser sends; none is longer than the buffer
Messages == {<<1>>, <<2>>, <<1, 2>>}

\* the bytes a slice holds now
Contents(data) ==
    IF data.alias = NoSession THEN data.bytes
    ELSE SubSeq(buffer[data.alias], 1, data.len)

\* line 315: n, err := d.Read(buffer) returns a message
ReadLoopRead(p, msg) ==
    /\ rlPc[p] = "read"
    /\ Len(messages[p]) < MaxMessages
    /\ Len(msg) <= messageSize
    /\ buffer' = [buffer EXCEPT ![p] =
                     [i \in 1..messageSize |-> IF i <= Len(msg) THEN msg[i] ELSE @[i]]]
    /\ rlN' = [rlN EXCEPT ![p] = Len(msg)]
    /\ messages' = [messages EXCEPT ![p] = Append(@, msg)]
    /\ rlPc' = [rlPc EXCEPT ![p] = "push"]
    /\ UNCHANGED <<rlIp, inbound>>
    /\ UNCHANGED otherThanRead

\* a push of buffer[:n] itself
ReadLoopPushAlias(p) ==
    /\ rlPc[p] = "push"
    /\ inbound' = Append(inbound,
                      [ip0 |-> rlIp[p], port |-> Port, by |-> p,
                       data |-> [alias |-> p, len |-> rlN[p], bytes |-> <<>>]])
    /\ rlPc' = [rlPc EXCEPT ![p] = "read"]
    /\ UNCHANGED <<rlIp, buffer, rlN, messages>>
    /\ UNCHANGED otherThanRead

\* lines 321-330: data := make([]byte, n); copy(data, buffer[:n]);
\* net.PushPacket(Packet{Addr{IP: ip, Port: 1000}, Data: data})
ReadLoopPush(p) ==
    /\ rlPc[p] = "push"
    /\ inbound' = Append(inbound,
                      [ip0 |-> rlIp[p], port |-> Port, by |-> p,
                       data |-> [alias |-> NoSession, len |-> rlN[p],
                                 bytes |-> SubSeq(buffer[p], 1, rlN[p])]])
    /\ rlPc' = [rlPc EXCEPT ![p] = "read"]
    /\ UNCHANGED <<rlIp, buffer, rlN, messages>>
    /\ UNCHANGED otherThanRead

\* lines 316-320: d.Read returns an error (the channel is closed): return
ReadLoopReturn(p) ==
    /\ rlPc[p] = "read"
    /\ rlPc' = [rlPc EXCEPT ![p] = "exit"]
    /\ UNCHANGED <<rlIp, buffer, rlN, messages, inbound>>
    /\ UNCHANGED otherThanRead

InitReadIdle ==
    /\ rlPc = [p \in ReadPeers |-> "read"]
    /\ rlIp = [p \in ReadPeers |-> 0]
    /\ buffer = [p \in ReadPeers |-> [i \in 1..messageSize |-> 0]]
    /\ rlN = [p \in ReadPeers |-> 0]
    /\ messages = [p \in ReadPeers |-> <<>>]
    /\ inbound = <<>>

(***************************************************************************)
(* One token, from generateToken to validateToken (auth.go:66-98).  The    *)
(* token string is its claims and the HS256 MAC made over them with        *)
(* jwtSecret, kept as the claims it was made over; strings that decode to  *)
(* the same segments are one string.                                       *)
(***************************************************************************)
NoClaims == [exp |-> 0, role |-> "", username |-> ""]
NoString == [wellFormed |-> FALSE, claims |-> NoClaims, mac |-> NoClaims]
NoCheck == [done |-> FALSE]

\* token.SignedString(jwtSecret), line 80
SignedString(t) ==
    LET claims == [exp |-> t.exp, role |-> t.role, username |-> t.username]
    IN [wellFormed |-> TRUE, claims |-> claims, mac |-> claims]

\* jwt.ParseWithClaims, lines 85-87: the segments and the check of the MAC
\* with the key the keyfunc returns
ParseWithClaims(str) ==
    IF ~str.wellFormed THEN Garbage
    ELSE Token(IF str.mac = str.claims THEN "valid" ELSE "forged",
               str.claims.exp, str.claims.role, str.claims.username)

\* the times at which the token is made, altered and validated
TokenClocks == {0, 1, jwtExpiration - 1, jwtExpiration, jwtExpiration + 1, jwtExpiration + 2}

\* the claims someone may put in the place of those of a token
OtherClaims(claims) ==
    { [claims EXCEPT !.username = u] : u \in Usernames \ {claims.username} }
        \cup { [claims EXCEPT !.role = "user"], [claims EXCEPT !.exp = @ + 2] }

\* loginHandler, line 149: tokenString, err := generateToken(req.Username)
TokenIssue(username) ==
    /\ tokenString = NoString
    /\ altered = "no"
    /\ tokenString' = SignedString(generateToken(username))
    /\ issuedAt' = clock
    /\ issuedTo' = username
    /\ UNCHANGED <<altered, checked>>
    /\ UNCHANGED otherThanTok

\* the holder replaces the signature segment
AlterSignature ==
    /\ tokenString # NoString
    /\ altered = "no"
    /\ tokenString' = [tokenString EXCEPT !.mac = NoClaims]
    /\ altered' = "signature"
    /\ UNCHANGED <<issuedAt, issuedTo, checked>>
    /\ UNCHANGED otherThanTok

\* the holder replaces the payload segment, keeping the signature
AlterPayload(claims) ==
    /\ tokenString # NoString
    /\ altered = "no"
    /\ claims \in OtherClaims(tokenString.claims)
    /\ tokenString' = [tokenString EXCEPT !.claims = claims]
    /\ altered' = "payload"
    /\ UNCHANGED <<issuedAt, issuedTo, checked>>
    /\ UNCHANGED otherThanTok

\* the holder sends a string that is no JWT
Malform ==
    /\ altered = "no"
    /\ tokenString' = NoString
    /\ altered' = "malformed"
    /\ UNCHANGED <<issuedAt, issuedTo, checked>>
    /\ UNCHANGED otherThanTok

\* claims, err := validateToken(tokenString): the claims, or an error
TokenValidate ==
    /\ tokenString # NoString \/ altered = "malformed"
    /\ LET t == ParseWithClaims(tokenString)
       IN checked' = [done |-> TRUE, at |-> clock, altered |-> altered,
                      err |-> ~validateToken(t),
                      Username |-> IF validateToken(t) THEN t.username ELSE "",
                      Role |-> IF validateToken(t) THEN t.role ELSE ""]
    /\ UNCHANGED <<tokenString, issuedAt, issuedTo, altered>>
    /\ UNCHANGED otherThanTok

InitTokenIdle ==
    /\ tokenString = NoString
    /\ issuedAt = 0
    /\ issuedTo = ""
    /\ altered = "no"
    /\ checked = NoCheck

(***************************************************************************)
(* Signaling and track fan-out: websocketHandler's session list, addTrack, *)
(* removeTrack, signalPeerConnections (config.go:119-289, 428-546).        *)
(*                                                                         *)
(* A sender's track is <<ID, session>>: the TrackLocalStaticRTP made by    *)
(* addTrack for the track of that session.  A session receives at most    *)
(* one track (one recvonly audio transceiver); its ID is chosen by the     *)
(* browser.  RemoveTrack takes the sender's track away, AddTrack adds a    *)
(* sender; WriteJSON fails once the websocket has failed.                  *)
(***************************************************************************)
Peers == 1..MaxPeers
TrackIDs == 1..MaxTrackIDs
\* the IDs a browser may give its track; IDs are interchangeable, so the
\* first session's is called 1
TrackIDsOf(s) == IF s = 1 THEN {1} ELSE TrackIDs
Free == <<"free", 0>>
NoCaller == <<"none", 0>>
\* the callers of signalPeerConnections: a websocketHandler, an OnTrack
\* goroutine (from addTrack or removeTrack), a state-change callback, the
\* goroutine that sleeps 3 seconds
SignalCallers == ({"handler", "track", "closed"} \X Peers) \cup {<<"deferred", 0>>}

Ids(tracks) == { t[1] : t \in tracks }
InList(s) == \E i \in 1..Len(pcs) : pcs[i] = s
Without(list, i) == SubSeq(list, 1, i - 1) \o SubSeq(list, i + 1, Len(list))

\* the IDs of the tracks of GetReceivers() that are not nil
Received(s) == IF trackPc[s] = "none" THEN {} ELSE {trackId[s]}

\* the keys of trackLocals
Registered == { id \in TrackIDs : trackLocals[id] # NoSession }

\* the senders keeping only the tracks whose ID is a key of trackLocals
Kept(have) ==
    [t \in { x \in BagToSet(have) : x[1] \in Registered } |-> have[t]]

\* attemptSync adding a sender for every sink of the registry that the
\* session does not receive itself, whatever it sends already
SyncAddingAll(have, s) ==
    Kept(have) (+) SetToBag({ <<id, trackLocals[id]>> : id \in Registered \ Received(s) })

\* attemptSync, lines 221-255: the senders after the three loops, from the
\* senders `have`
Sync(have, s) ==
    LET existingSenders == Ids(BagToSet(have)) \cup Received(s)
    IN Kept(have) (+)
           SetToBag({ <<id, trackLocals[id]>> : id \in Registered \ existingSenders })

Synced(s) == Sync(senders[s], s)

\* for _, con := range peerConnections { con.signalsCount = DefaultSignalsCount }
Marked == [s \in Peers |-> IF InList(s) THEN SignalsCount ELSE signalsCount[s]]

\* c.WriteJSON fails: the websocket has failed or is closed
Broken(s) == hPc[s] \in {"closing", "gone"}

\* a call of signalPeerConnections is waiting for (or holds) listLock
Calling(c) ==
    \/ c[1] = "handler" /\ hPc[c[2]] = "signal"
    \/ c[1] = "track" /\ trackPc[c[2]] \in {"signalAdd", "signalRemove"}
    \/ c[1] = "closed" /\ closedCb[c[2]]
    \/ c[1] = "deferred" /\ deferred > 0

\* lines 484-491: append to peerConnections with DefaultSignalsCount, then
\* signalPeerConnections()
SigConnect(s) ==
    /\ hPc[s] = "new"
    /\ listLock = Free
    /\ pcs' = Append(pcs, s)
    /\ signalsCount' = [signalsCount EXCEPT ![s] = SignalsCount]
    /\ connState' = [connState EXCEPT ![s] = "open"]
    /\ hPc' = [hPc EXCEPT ![s] = "signal"]
    /\ UNCHANGED <<listLock, trackLocals, closedCb, trackPc, trackId, senders, offersOut,
                   wsWriters, deferred, passBy, syncAttempt, passI, passOffered>>
    /\ UNCHANGED otherThanSig

\* lines 522-529: an answer is read and applied; SetRemoteDescription
\* applies it only in have-local-offer (in stable it fails and the handler
\* returns, SigReadError).  No lock is held.
SigAnswer(s) ==
    /\ hPc[s] = "loop"
    /\ connState[s] = "open"
    /\ offersOut[s] > 0
    /\ offersOut' = [offersOut EXCEPT ![s] = 0]
    /\ hPc' = [hPc EXCEPT ![s] = "answered"]
    /\ UNCHANGED <<listLock, pcs, signalsCount, trackLocals, connState, closedCb, trackPc,
                   trackId, senders, wsWriters, deferred, passBy, syncAttempt, passI,
                   passOffered>>
    /\ UNCHANGED otherThanSig

\* mutant: the answer handler leaves the counter as it is
SigAnsweredKeepsCount(s) ==
    /\ hPc[s] = "answered"
    /\ listLock = Free
    /\ hPc' = [hPc EXCEPT ![s] = IF signalsCount[s] > 0 THEN "signal" ELSE "loop"]
    /\ UNCHANGED <<listLock, pcs, signalsCount, trackLocals, connState, closedCb, trackPc,
                   trackId, senders, offersOut, wsWriters, deferred, passBy,
                   syncAttempt, passI, passOffered>>
    /\ UNCHANGED otherThanSig

\* lines 530-541: listLock.Lock(); signalsCount -= 1; listLock.Unlock();
\* signalPeerConnections() if it is still > 0
SigAnswered(s) ==
    /\ hPc[s] = "answered"
    /\ listLock = Free
    /\ signalsCount' = [signalsCount EXCEPT ![s] = @ - 1]
    /\ hPc' = [hPc EXCEPT ![s] = IF signalsCount[s] - 1 > 0 THEN "signal" ELSE "loop"]
    /\ UNCHANGED <<listLock, pcs, trackLocals, connState, closedCb, trackPc, trackId,
                   senders, offersOut, wsWriters, deferred, passBy, syncAttempt, passI,
                   passOffered>>
    /\ UNCHANGED otherThanSig

\* lines 495-500: c.ReadMessage fails (or a message cannot be handled): return
SigReadError(s) ==
    /\ hPc[s] = "loop"
    /\ hPc' = [hPc EXCEPT ![s] = "closing"]
    /\ UNCHANGED <<listLock, pcs, signalsCount, trackLocals, connState, closedCb, trackPc,
                   trackId, senders, offersOut, wsWriters, deferred, passBy,
                   syncAttempt, passI, passOffered>>
    /\ UNCHANGED otherThanSig

\* deferred, lines 358 and 347: peerConnection.Close() and c.Close(); the
\* state change to Closed calls the callback of lines 441-452.  A closed
\* connection has stopped its senders and takes no answer.
SigClose(s) ==
    /\ hPc[s] = "closing"
    /\ hPc' = [hPc EXCEPT ![s] = "gone"]
    /\ connState' = [connState EXCEPT ![s] = "closed"]
    /\ closedCb' = [closedCb EXCEPT ![s] = @ \/ connState[s] = "open"]
    /\ senders' = [senders EXCEPT ![s] = EmptyBag]
    /\ offersOut' = [offersOut EXCEPT ![s] = 0]
    /\ UNCHANGED <<listLock, pcs, signalsCount, trackLocals, trackPc, trackId,
                   wsWriters, deferred, passBy, syncAttempt, passI, passOffered>>
    /\ UNCHANGED otherThanSig

\* lines 441-452: the transport fails: Failed, peerConnection.Close(), Closed
SigFailed(s) ==
    /\ hPc[s] \in {"signal", "loop"}
    /\ connState[s] = "open"
    /\ connState' = [connState EXCEPT ![s] = "closed"]
    /\ closedCb' = [closedCb EXCEPT ![s] = TRUE]
    /\ senders' = [senders EXCEPT ![s] = EmptyBag]
    /\ offersOut' = [offersOut EXCEPT ![s] = 0]
    /\ UNCHANGED <<listLock, pcs, signalsCount, trackLocals, hPc, trackPc, trackId,
                   wsWriters, deferred, passBy, syncAttempt, passI, passOffered>>
    /\ UNCHANGED otherThanSig

\* lines 454-456: OnTrack is called with the browser's track
OnTrack(s, id) ==
    /\ hPc[s] \in {"signal", "loop"}
    /\ connState[s] = "open"
    /\ trackPc[s] = "none"
    /\ trackPc' = [trackPc EXCEPT ![s] = "add"]
    /\ trackId' = [trackId EXCEPT ![s] = id]
    /\ UNCHANGED <<listLock, pcs, signalsCount, trackLocals, hPc, connState, closedCb,
                   senders, offersOut, wsWriters, deferred, passBy,
                   syncAttempt, passI, passOffered>>
    /\ UNCHANGED otherThanSig

\* addTrack storing the sink and letting go of listLock before the counters
\* are set
AddTrackStoreUnlocked(s) ==
    /\ trackPc[s] = "add"
    /\ listLock = Free
    /\ trackLocals' = [trackLocals EXCEPT ![trackId[s]] = s]
    /\ trackPc' = [trackPc EXCEPT ![s] = "signalAdd"]
    /\ UNCHANGED <<listLock, pcs, signalsCount, hPc, connState, closedCb, trackId, senders,
                   offersOut, wsWriters, deferred, passBy, syncAttempt, passI,
                   passOffered>>
    /\ UNCHANGED otherThanSig

\* addTrack, lines 165-177: listLock.Lock(); trackLocals[t.ID()] = trackLocal
AddTrackStore(s) ==
    /\ trackPc[s] = "add"
    /\ listLock = Free
    /\ listLock' = <<"add", s>>
    /\ trackLocals' = [trackLocals EXCEPT ![trackId[s]] = s]
    /\ trackPc' = [trackPc EXCEPT ![s] = "mark"]
    /\ UNCHANGED <<pcs, signalsCount, hPc, connState, closedCb, trackId, senders,
                   offersOut, wsWriters, deferred, passBy, syncAttempt, passI,
                   passOffered>>
    /\ UNCHANGED otherThanSig

\* addTrack, lines 179-183 and 167-168: the counters are set; listLock.Unlock()
AddTrackMark(s) ==
    /\ trackPc[s] = "mark"
    /\ listLock = <<"add", s>>
    /\ signalsCount' = Marked
    /\ listLock' = Free
    /\ trackPc' = [trackPc EXCEPT ![s] = "signalAdd"]
    /\ UNCHANGED <<pcs, trackLocals, hPc, connState, closedCb, trackId, senders,
                   offersOut, wsWriters, deferred, passBy, syncAttempt, passI,
                   passOffered>>
    /\ UNCHANGED otherThanSig

\* lines 463-481: t.Read or WriteRTP fails, the goroutine returns and its
\* deferred removeTrack runs
TrackEnds(s) ==
    /\ trackPc[s] = "reading"
    /\ connState[s] = "closed"
    /\ trackPc' = [trackPc EXCEPT ![s] = "remove"]
    /\ UNCHANGED <<listLock, pcs, signalsCount, trackLocals, hPc, connState, closedCb,
                   trackId, senders, offersOut, wsWriters, deferred, passBy,
                   syncAttempt, passI, passOffered>>
    /\ UNCHANGED otherThanSig

\* removeTrack, lines 188-196: listLock.Lock(); the counters are set
RemoveTrackMark(s) ==
    /\ trackPc[s] = "remove"
    /\ listLock = Free
    /\ listLock' = <<"remove", s>>
    /\ signalsCount' = Marked
    /\ trackPc' = [trackPc EXCEPT ![s] = "delete"]
    /\ UNCHANGED <<pcs, trackLocals, hPc, connState, closedCb, trackId, senders,
                   offersOut, wsWriters, deferred, passBy, syncAttempt, passI,
                   passOffered>>
    /\ UNCHANGED otherThanSig

\* removeTrack, lines 198 and 190-191: delete(trackLocals, t.ID()); Unlock
RemoveTrackDelete(s) ==
    /\ trackPc[s] = "delete"
    /\ listLock = <<"remove", s>>
    /\ trackLocals' = [trackLocals EXCEPT ![trackId[s]] = NoSession]
    /\ listLock' = Free
    /\ trackPc' = [trackPc EXCEPT ![s] = "signalRemove"]
    /\ UNCHANGED <<pcs, signalsCount, hPc, connState, closedCb, trackId, senders,
                   offersOut, wsWriters, deferred, passBy, syncAttempt, passI,
                   passOffered>>
    /\ UNCHANGED otherThanSig

\* a candidate written straight to the connection, without the writer's mutex
CandidateWriteUnlocked(s) ==
    /\ hPc[s] \in {"signal", "loop"}
    /\ connState[s] = "open"
    /\ "candidate" \notin wsWriters[s]
    /\ wsWriters' = [wsWriters EXCEPT ![s] = @ \cup {"candidate"}]
    /\ UNCHANGED <<listLock, pcs, signalsCount, trackLocals, hPc, connState, closedCb,
                   trackPc, trackId, senders, offersOut, deferred, passBy,
                   syncAttempt, passI, passOffered>>
    /\ UNCHANGED otherThanSig

\* OnICECandidate, lines 429-439: c.WriteJSON(EventCandidate, ...) takes the
\* writer's mutex and writes.  The ICE agent reports a connection's
\* candidates one after the other.
CandidateWrite(s) ==
    /\ hPc[s] \in {"signal", "loop"}
    /\ connState[s] = "open"
    /\ wsWriters[s] = {}
    /\ wsWriters' = [wsWriters EXCEPT ![s] = {"candidate"}]
    /\ UNCHANGED <<listLock, pcs, signalsCount, trackLocals, hPc, connState, closedCb,
                   trackPc, trackId, senders, offersOut, deferred, passBy,
                   syncAttempt, passI, passOffered>>
    /\ UNCHANGED otherThanSig

\* mutant: the candidate callback takes the list lock before it releases the
\* writer's mutex
CandidateWrittenUnderListLock(s) ==
    /\ "candidate" \in wsWriters[s]
    /\ listLock = Free
    /\ wsWriters' = [wsWriters EXCEPT ![s] = @ \ {"candidate"}]
    /\ UNCHANGED <<listLock, pcs, signalsCount, trackLocals, hPc, connState, closedCb,
                   trackPc, trackId, senders, offersOut, deferred, passBy,
                   syncAttempt, passI, passOffered>>
    /\ UNCHANGED otherThanSig

\* the write of the candidate returns; the mutex is released
CandidateWritten(s) ==
    /\ "candidate" \in wsWriters[s]
    /\ wsWriters' = [wsWriters EXCEPT ![s] = @ \ {"candidate"}]
    /\ UNCHANGED <<listLock, pcs, signalsCount, trackLocals, hPc, connState, closedCb,
                   trackPc, trackId, senders, offersOut, deferred, passBy,
                   syncAttempt, passI, passOffered>>
    /\ UNCHANGED otherThanSig

\* signalPeerConnections, lines 203-207 and 274: listLock.Lock(), the first
\* attempt.  While MaxDeferred re-invocations are scheduled, one of them gets
\* the lock before any other caller.
PassStart(c) ==
    /\ Calling(c)
    /\ listLock = Free
    /\ c[1] = "deferred" \/ deferred < MaxDeferred
    /\ listLock' = <<"pass", 0>>
    /\ passBy' = c
    /\ syncAttempt' = 1
    /\ passI' = 1
    /\ passOffered' = {}
    /\ deferred' = IF c[1] = "deferred" THEN deferred - 1 ELSE deferred
    /\ UNCHANGED <<pcs, signalsCount, trackLocals, hPc, connState, closedCb, trackPc,
                   trackId, senders, offersOut, wsWriters>>
    /\ UNCHANGED otherThanSig

\* a session is passed over only when its counter is below zero
SettledBelowZero(s) == signalsCount[s] < 0

\* attemptSync, line 211: the session needs no signaling
Settled(s) == signalsCount[s] <= 0

\* attemptSync, lines 211-213: signalsCount <= 0: continue
PassSkip ==
    /\ listLock = <<"pass", 0>>
    /\ passI \in 1..Len(pcs)
    /\ \A s \in Peers : "offer" \notin wsWriters[s]
    /\ Settled(pcs[passI])
    /\ passI' = passI + 1
    /\ UNCHANGED <<listLock, pcs, signalsCount, trackLocals, hPc, connState, closedCb,
                   trackPc, trackId, senders, offersOut, wsWriters, deferred,
                   passBy, syncAttempt, passOffered>>
    /\ UNCHANGED otherThanSig

\* attemptSync, lines 215-219: a closed connection is taken out of the
\* slice; return true.  Nothing reads the counter of a session that has left
\* the slice.
PassRemoveClosed ==
    /\ listLock = <<"pass", 0>>
    /\ passI \in 1..Len(pcs)
    /\ \A s \in Peers : "offer" \notin wsWriters[s]
    /\ ~Settled(pcs[passI])
    /\ connState[pcs[passI]] = "closed"
    /\ pcs' = Without(pcs, passI)
    /\ signalsCount' = [signalsCount EXCEPT ![pcs[passI]] = 0]
    /\ passI' = 0
    /\ UNCHANGED <<listLock, trackLocals, hPc, connState, closedCb, trackPc,
                   trackId, senders, offersOut, wsWriters, deferred, passBy,
                   syncAttempt, passOffered>>
    /\ UNCHANGED otherThanSig

\* attemptSync, lines 221-268: the senders are brought in line with
\* trackLocals, the offer is made and c.WriteJSON(EventOffer, offer) takes the
\* writer's mutex; a failed write returns true
PassSync ==
    /\ listLock = <<"pass", 0>>
    /\ passI \in 1..Len(pcs)
    /\ \A s \in Peers : "offer" \notin wsWriters[s]
    /\ LET s == pcs[passI]
       IN /\ ~Settled(s)
          /\ connState[s] # "closed"
          /\ wsWriters[s] = {}
          /\ senders' = [senders EXCEPT ![s] = Synced(s)]
          /\ IF Broken(s)
             THEN /\ passI' = 0
                  /\ UNCHANGED wsWriters
             ELSE /\ wsWriters' = [wsWriters EXCEPT ![s] = {"offer"}]
                  /\ UNCHANGED passI
    /\ UNCHANGED <<listLock, pcs, signalsCount, trackLocals, hPc, connState, closedCb,
                   trackPc, trackId, offersOut, deferred, passBy, syncAttempt,
                   passOffered>>
    /\ UNCHANGED otherThanSig

\* attemptSync, lines 265-268: the write of the offer returns; next i
PassOffered ==
    /\ listLock = <<"pass", 0>>
    /\ passI \in 1..Len(pcs)
    /\ "offer" \in wsWriters[pcs[passI]]
    /\ LET s == pcs[passI]
       IN /\ wsWriters' = [wsWriters EXCEPT ![s] = @ \ {"offer"}]
          /\ offersOut' = [offersOut EXCEPT ![s] = 1]
          /\ passOffered' = passOffered \cup {s}
    /\ passI' = passI + 1
    /\ UNCHANGED <<listLock, pcs, signalsCount, trackLocals, hPc, connState, closedCb,
                   trackPc, trackId, senders, deferred, passBy, syncAttempt>>
    /\ UNCHANGED otherThanSig

\* the loop of lines 274-288 without its bound
PassRetryForever ==
    /\ listLock = <<"pass", 0>>
    /\ passI = 0
    /\ syncAttempt' = syncAttempt + 1
    /\ passI' = 1
    /\ passOffered' = {}
    /\ UNCHANGED <<listLock, pcs, signalsCount, trackLocals, hPc, connState, closedCb,
                   trackPc, trackId, senders, offersOut, wsWriters, deferred,
                   passBy>>
    /\ UNCHANGED otherThanSig

\* lines 274-287: attemptSync returned true and syncAttempt is not yet 25:
\* the next attempt
PassRetry ==
    /\ listLock = <<"pass", 0>>
    /\ passI = 0
    /\ syncAttempt < SyncAttempts
    /\ syncAttempt' = syncAttempt + 1
    /\ passI' = 1
    /\ passOffered' = {}
    /\ UNCHANGED <<listLock, pcs, signalsCount, trackLocals, hPc, connState, closedCb,
                   trackPc, trackId, senders, offersOut, wsWriters, deferred,
                   passBy>>
    /\ UNCHANGED otherThanSig

\* what the caller of signalPeerConnections does when the call returns
Resumed(c) ==
    /\ hPc' = IF c[1] = "handler" THEN [hPc EXCEPT ![c[2]] = "loop"] ELSE hPc
    /\ trackPc' = IF c[1] = "track"
                  THEN [trackPc EXCEPT ![c[2]] =
                            IF @ = "signalAdd" THEN "reading" ELSE "done"]
                  ELSE trackPc
    /\ closedCb' = IF c[1] = "closed" THEN [closedCb EXCEPT ![c[2]] = FALSE] ELSE closedCb

\* lines 275-283 and 204-207: syncAttempt == 25: go func() { time.Sleep(3 s);
\* signalPeerConnections() }(); return; listLock.Unlock(); dispatchKeyFrame()
PassGiveUp ==
    /\ listLock = <<"pass", 0>>
    /\ passI = 0
    /\ syncAttempt = SyncAttempts
    /\ deferred' = deferred + 1
    /\ listLock' = Free
    /\ passBy' = NoCaller
    /\ Resumed(passBy)
    /\ syncAttempt' = 0
    /\ passI' = 1
    /\ passOffered' = {}
    /\ UNCHANGED <<pcs, signalsCount, trackLocals, connState, trackId, senders, offersOut,
                   wsWriters>>
    /\ UNCHANGED otherThanSig

\* lines 285-287 and 204-207: attemptSync returned false: break;
\* listLock.Unlock(); dispatchKeyFrame()
PassEnd ==
    /\ listLock = <<"pass", 0>>
    /\ passI = Len(pcs) + 1
    /\ listLock' = Free
    /\ passBy' = NoCaller
    /\ Resumed(passBy)
    /\ syncAttempt' = 0
    /\ passI' = 1
    /\ passOffered' = {}
    /\ UNCHANGED <<pcs, signalsCount, trackLocals, connState, trackId, senders, offersOut,
                   wsWriters, deferred>>
    /\ UNCHANGED otherThanSig

\* the next step of the invocation that holds listLock
PassStep ==
    PassSkip \/ PassRemoveClosed \/ PassSync \/ PassOffered \/ PassRetry \/ PassGiveUp
        \/ PassEnd

(***************************************************************************)
(* The read loop of websocketHandler (config.go:493-545), frame by frame.  *)
(* A frame is a JSON object that may or may not have an "event" and a      *)
(* "data" member; its data is a session description ("sdp"), a candidate   *)
(* ("candidate") or absent.  message is allocated once, before the loop    *)
(* (line 493), and json.Unmarshal stores only the members the frame has.   *)
(***************************************************************************)
EventAnswer == "v1:answer"
EventCandidate == "v1:candidate"
Absent == "absent"
NoData == ""

Frames ==
    { [event |-> e, data |-> d] :
          e \in {EventAnswer, EventCandidate, "v1:ping", Absent},
          d \in {"sdp", "candidate", Absent} }

\* json.Unmarshal(raw, &message), line 502: members absent from the frame
\* keep the value the previous frames left
Unmarshal(old, f) ==
    [Event |-> IF f.event = Absent THEN old.Event ELSE f.event,
     Data |-> IF f.data = Absent THEN old.Data ELSE f.data]

\* what the switch of lines 508-544 does with message m on session s:
\* "answer": SetRemoteDescription has applied it (the peer connection was in
\* have-local-offer); "candidate": AddICECandidate has added it; "none": an
\* empty candidate, accepted and ignored; "unknown": the default case;
\* "return": an Unmarshal of the data, SetRemoteDescription (no offer
\* pending, or no session description) or AddICECandidate (no remote
\* description yet) has failed and the handler returns
Handled(s, m) ==
    IF m.Event = EventCandidate
    THEN IF m.Data = NoData \/ ~remoteDescription[s] THEN "return"
         ELSE IF m.Data = "candidate" THEN "candidate" ELSE "none"
    ELSE IF m.Event = EventAnswer
    THEN IF m.Data = "sdp" /\ offersOut[s] > 0 /\ connState[s] = "open" THEN "answer"
         ELSE "return"
    ELSE "unknown"

\* lines 495-545: one frame is read, unmarshalled into message and handled
SigFrame(s, f) ==
    /\ hPc[s] = "loop"
    /\ frame[s].n < MaxFrames
    /\ frame' = [frame EXCEPT ![s] = [n |-> @.n + 1, event |-> f.event, data |-> f.data]]
    /\ message' = [message EXCEPT ![s] = Unmarshal(@, f)]
    /\ LET did == Handled(s, Unmarshal(message[s], f))
       IN /\ hPc' = [hPc EXCEPT ![s] = CASE did = "answer" -> "answered"
                                         [] did = "return" -> "closing"
                                         [] OTHER -> @]
          /\ offersOut' = [offersOut EXCEPT ![s] = IF did = "answer" THEN 0 ELSE @]
          /\ remoteDescription' =
                 [remoteDescription EXCEPT ![s] = IF did = "answer" THEN TRUE ELSE @]
          /\ iceCandidates' =
                 [iceCandidates EXCEPT ![s] = IF did = "candidate" THEN @ + 1 ELSE @]
    /\ UNCHANGED <<listLock, pcs, signalsCount, trackLocals, connState, closedCb, trackPc,
                   trackId, senders, wsWriters, deferred, passBy, syncAttempt, passI,
                   passOffered>>
    /\ UNCHANGED <<limVars, httpVars, sfuVars, logVars, ringVars, netVars, readVars,
                   tokVars>>

InitSigIdle ==
    /\ listLock = Free
    /\ pcs = <<>>
    /\ signalsCount = [s \in Peers |-> 0]
    /\ trackLocals = [id \in TrackIDs |-> NoSession]
    /\ hPc = [s \in Peers |-> "new"]
    /\ connState = [s \in Peers |-> "new"]
    /\ closedCb = [s \in Peers |-> FALSE]
    /\ trackPc = [s \in Peers |-> "none"]
    /\ trackId = [s \in Peers |-> 1]
    /\ senders = [s \in Peers |-> EmptyBag]
    /\ offersOut = [s \in Peers |-> 0]
    /\ wsWriters = [s \in Peers |-> {}]
    /\ deferred = 0
    /\ passBy = NoCaller
    /\ syncAttempt = 0
    /\ passI = 1
    /\ passOffered = {}
    /\ message = [s \in Peers |-> [Event |-> "", Data |-> NoData]]
    /\ frame = [s \in Peers |-> [n |-> 0, event |-> Absent, data |-> Absent]]
    /\ remoteDescription = [s \in Peers |-> FALSE]
    /\ iceCandidates = [s \in Peers |-> 0]

InitUnitIdle ==
    /\ InitRingIdle
    /\ InitNetIdle
    /\ InitReadIdle
    /\ InitTokenIdle
    /\ InitSigIdle

(***************************************************************************)
(* Specifications of the rate limiter                                      *)
(***************************************************************************)
InitLimiterIdle ==
    /\ InitHttpIdle
    /\ InitSfuIdle
    /\ InitLogIdle
    /\ nTicks = 0
    /\ limiterSet = TRUE
    /\ visitors = [l \in Limiters |-> [k \in Keys |-> NoBucket]]
    /\ buckets = [b \in BucketIds |-> [tokens |-> 0, time |-> 0]]
    /\ nBuckets = 0
    /\ pc = [p \in Callers |-> "idle"]
    /\ callKey = [p \in Callers |-> "ip1"]
    /\ bucket = [p \in Callers |-> NoBucket]
    /\ oldState = [p \in Callers |-> [tokens |-> 0, time |-> 0]]
    /\ moved = [p \in Callers |-> FALSE]
    /\ now = [p \in Callers |-> 0]
    /\ ret = [p \in Callers |-> "none"]
    /\ nCalls = 0
    /\ sweepPc = "sleep"
    /\ sweepNow = 0
    /\ sweepTodo = {}
    /\ sweepKey = "ip1"
    /\ lastSweep = 0
    /\ granted = [k \in Keys |-> 0]
    /\ evictedFresh = FALSE
    /\ scn = ScnOff
    /\ avail0 = 0

\* NewRateLimiter(5) with its sweep, two concurrent callers of one key
InitLimiter ==
    /\ InitLimiterIdle
    /\ InitUnitIdle
    /\ mode = "limiter"
    /\ clock = 0
    /\ callLim = [p \in Callers |-> "login"]

NextLimiter ==
    \/ \E p \in ConcurrentCallers : AllowEnter(p, "login", "ip1")
    \/ \E p \in ConcurrentCallers : AllowLoad(p)
    \/ \E p \in ConcurrentCallers : AllowReject(p)
    \/ \E p \in ConcurrentCallers : AllowCommit(p)
    \/ \E p \in ConcurrentCallers : AllowRetry(p)
    \/ SweepStart
    \/ \E k \in Keys : SweepVisit(k)
    \/ SweepDelete
    \/ SweepEnd
    \/ \E d \in TickSteps : Tick(d)

SpecLimiter == InitLimiter /\ [][NextLimiter]_vars

\* one caller, calls in sequence, any clock reading between two steps
InitSeq ==
    /\ InitLimiterIdle
    /\ InitUnitIdle
    /\ mode = "seq"
    /\ clock \in SeqClocks
    /\ \E l \in Limiters : callLim = [p \in Callers |-> l]

NextSeq ==
    \/ AllowEnter(1, callLim[1], "ip1")
    \/ AllowLoad(1)
    \/ AllowReject(1)
    \/ AllowCommit(1)
    \/ \E t \in SeqClocks : ClockSet(t)

SpecSeq == InitSeq /\ [][NextSeq]_vars

\* a burst: every caller makes one call on the same key while the clock stands still
BurstClock == 20
BurstTokens == {0, 999, 1000, 1001, 2000, 2500, 5000}
BurstAges == {0, 6, 12}

InitBurst ==
    /\ InitLimiterIdle
    /\ InitUnitIdle
    /\ mode = "burst"
    /\ clock = BurstClock
    /\ callLim = [p \in Callers |-> "login"]

\* the key's bucket as earlier calls left it: m milli-tokens, last used `age` seconds ago
BurstBegin(m, age) ==
    /\ nBuckets = 0
    /\ avail0 = 0
    /\ \A p \in Callers : pc[p] = "idle" /\ ret[p] = "none"
    /\ nBuckets' = 1
    /\ buckets' = [buckets EXCEPT ![1] = [tokens |-> m, time |-> clock - age]]
    /\ visitors' = [visitors EXCEPT !["login"]["ip1"] = 1]
    /\ avail0' = WholeTokens([tokens |-> m, time |-> clock - age], clock, "login")
    /\ UNCHANGED otherThanLimiter
    /\ UNCHANGED <<clock, nTicks, limiterSet, callerVars, sweepVars, granted,
                   evictedFresh, scn>>

NextBurst ==
    \/ \E m \in BurstTokens, age \in BurstAges : BurstBegin(m, age)
    \/ \E p \in Callers : nBuckets > 0 /\ AllowEnter(p, "login", "ip1")
    \/ \E p \in Callers : AllowLoad(p)
    \/ \E p \in Callers : AllowReject(p)
    \/ \E p \in Callers : AllowCommit(p)
    \/ \E p \in Callers : AllowRetry(p)

SpecBurst == InitBurst /\ [][NextBurst]_vars

\* a call in progress is a running goroutine: the scheduler lets it take its
\* next step
AllowStep(p) == AllowLoad(p) \/ AllowReject(p) \/ AllowCommit(p) \/ AllowRetry(p)

SpecBurstFair == SpecBurst /\ \A p \in Callers : WF_vars(AllowStep(p))

(***************************************************************************)
(* Specification of the HTTP server: init() (sfu.go:17-84) has run with    *)
(* or without ADMIN_PANEL_PASSWORD and ADMIN_PANEL_USER; requests are      *)
(* served one after the other.  The client address has already spent all   *)
(* but RconLeft of its /v1/rcon requests of this minute.                   *)
(***************************************************************************)
InitHTTP ==
    /\ InitUnitIdle
    /\ InitSfuIdle
    /\ InitLogIdle
    /\ clock = 0
    /\ nTicks = 0
    /\ adminPassword \in {"", "secret"}
    /\ adminUsername \in Usernames
    /\ limiterSet = (adminPassword # "")
    /\ resp = Reply(NoRequest, "")
    /\ \/ /\ visitors = [l \in Limiters |-> [k \in Keys |-> NoBucket]]
          /\ buckets = [b \in BucketIds |-> [tokens |-> 0, time |-> 0]]
          /\ nBuckets = 0
          /\ ~limiterSet
       \/ /\ limiterSet
          /\ visitors = [l \in Limiters |-> [k \in Keys |-> IF l = "rcon" THEN 1 ELSE NoBucket]]
          /\ \E n \in 0..RconLeft :
                 buckets = [b \in BucketIds |->
                               [tokens |-> IF b = 1 THEN n * tokenMultiplier ELSE 0, time |-> 0]]
          /\ nBuckets = 1
    /\ pc = [p \in Callers |-> "idle"]
    /\ callLim = [p \in Callers |-> "login"]
    /\ callKey = [p \in Callers |-> "ip1"]
    /\ bucket = [p \in Callers |-> NoBucket]
    /\ oldState = [p \in Callers |-> [tokens |-> 0, time |-> 0]]
    /\ moved = [p \in Callers |-> FALSE]
    /\ now = [p \in Callers |-> 0]
    /\ ret = [p \in Callers |-> "none"]
    /\ mode = "http"
    /\ nCalls = 0
    /\ sweepPc = "sleep"
    /\ sweepNow = 0
    /\ sweepTodo = {}
    /\ sweepKey = "ip1"
    /\ lastSweep = 0
    /\ granted = [k \in Keys |-> 0]
    /\ evictedFresh = FALSE
    /\ scn = ScnOff
    /\ avail0 = 0

NextHTTP ==
    \/ \E r \in Requests : ServeSalt(r)
    \/ \E r \in Requests : ServeLogin(r)
    \/ \E r \in Requests : ServeAuthOther(r)
    \/ \E r \in Requests : ServeConfig(r)
    \/ \E r \in Requests : ServeRcon(r)
    \/ \E r \in Requests : ServeLogs(r)
    \/ \E r \in Requests : ServeAdmin(r)
    \/ \E r \in Requests : ServeSignaling(r)
    \/ \E r \in Requests : ServeStatic(r)

SpecHTTP == InitHTTP /\ [][NextHTTP]_vars

(***************************************************************************)
(* Specification of the signaling handler: browsers connect and            *)
(* disconnect, their data channels open, their read loops run.             *)
(***************************************************************************)
InitSFU ==
    /\ InitLimiterIdle
    /\ InitUnitIdle
    /\ clock = 0
    /\ callLim = [p \in Callers |-> "login"]
    /\ mode = "off"

NextSFU ==
    \/ \E s \in Sessions : Connect(s)
    \/ \E s \in Sessions : ConnectFailed(s)
    \/ \E s \in Sessions : WriteOpen(s)
    \/ \E s \in Sessions : ReadOpen(s)
    \/ \E s \in Sessions : RLRead(s)
    \/ \E s \in Sessions : RLPush(s)
    \/ \E s \in Sessions : RLExit(s)
    \/ \E s \in Sessions : Disconnect(s)
    \/ \E s \in Sessions : CloseWrite(s)
    \/ \E s \in Sessions : CloseRead(s)
    \/ \E s \in Sessions : Put(s)
    \/ \E s \in Sessions : ClosePC(s)

SpecSFU == InitSFU /\ [][NextSFU]_vars

(***************************************************************************)
(* Specification of the log fan-out: the engine's output and the server's  *)
(* logger publish lines, the dispatcher fans them out, clients subscribe   *)
(* and leave.                                                              *)
(***************************************************************************)
InitLogs ==
    /\ InitLimiterIdle
    /\ InitUnitIdle
    /\ clock = 0
    /\ callLim = [p \in Callers |-> "login"]
    /\ mode = "off"

NextLogs ==
    \/ BroadcastLogAdd
    \/ BroadcastLogOffer
    \/ LoggerOffer
    \/ LoggerAdd
    \/ Dequeue
    \/ FanOut
    \/ \E c \in Subscribers, msg \in AuthMessages : LogsAuth(c, msg)
    \/ \E c \in Subscribers : HistorySizes(c)
    \/ \E c \in Subscribers : HistoryCopy(c)
    \/ \E c \in Subscribers : Register(c)
    \/ \E c \in Subscribers : PumpWrite(c)
    \/ \E c \in Subscribers : Unregister(c)
    \/ \E c \in Subscribers : CloseChan(c)

SpecLogs == InitLogs /\ [][NextLogs]_vars

(***************************************************************************)
(* Specification of the ring buffer on its own: a buffer of any capacity,  *)
(* entries added and the content read back by one goroutine.               *)
(***************************************************************************)
InitRing ==
    /\ InitLimiterIdle
    /\ clock = 0
    /\ callLim = [p \in Callers |-> "login"]
    /\ mode = "off"
    /\ \E capacity \in Capacities : cb = NewCircularBuffer(capacity)
    /\ added = <<>>
    /\ result = <<>>
    /\ seen = <<>>
    /\ called = FALSE

    /\ InitNetIdle
    /\ InitReadIdle
    /\ InitTokenIdle
    /\ InitSigIdle

NextRing ==
    \/ \E entry \in Lines : RingAdd(entry)
    \/ RingGetAll

SpecRing == InitRing /\ [][NextRing]_vars

(***************************************************************************)
(* Specification of the engine's sends: browsers connect, their "write"    *)
(* channels open, they disconnect and their handlers unwind, while the     *)
(* engine calls SendTo and SendToBatch.                                    *)
(***************************************************************************)
InitNet ==
    /\ InitLimiterIdle
    /\ InitUnitIdle
    /\ clock = 0
    /\ callLim = [p \in Callers |-> "login"]
    /\ mode = "off"

NextNet ==
    \/ \E s \in NetPeers : Connect(s)
    \/ \E s \in NetPeers : WriteOpen(s)
    \/ \E s \in NetPeers : Disconnect(s)
    \/ \E s \in NetPeers : CloseWrite(s)
    \/ \E s \in NetPeers : CloseRead(s)
    \/ \E s \in NetPeers : Put(s)
    \/ \E s \in NetPeers : ClosePC(s)
    \/ \E packet \in Packets : CallSendTo(packet)
    \/ \E ps \in Batches : SendToBatch(ps)
    \/ BatchSendTo
    \/ BatchReturn

SpecNet == InitNet /\ [][NextNet]_vars

(***************************************************************************)
(* Specification of the read loops: the loops of two browsers, started     *)
(* with the addresses their handlers drew, read messages and push packets. *)
(***************************************************************************)
InitRead ==
    /\ InitLimiterIdle
    /\ InitRingIdle
    /\ InitNetIdle
    /\ InitTokenIdle
    /\ InitSigIdle
    /\ clock = 0
    /\ callLim = [p \in Callers |-> "login"]
    /\ mode = "off"
    /\ rlPc = [p \in ReadPeers |-> "read"]
    /\ rlIp \in [ReadPeers -> Indices]
    /\ buffer = [p \in ReadPeers |-> [i \in 1..messageSize |-> 0]]
    /\ rlN = [p \in ReadPeers |-> 0]
    /\ messages = [p \in ReadPeers |-> <<>>]
    /\ inbound = <<>>

NextRead ==
    \/ \E p \in ReadPeers, msg \in Messages : ReadLoopRead(p, msg)
    \/ \E p \in ReadPeers : ReadLoopPush(p)
    \/ \E p \in ReadPeers : ReadLoopReturn(p)

SpecRead == InitRead /\ [][NextRead]_vars

(***************************************************************************)
(* Specification of a token's life: it is issued for a username, the       *)
(* clock advances, the holder may alter the string, and it is validated.   *)
(***************************************************************************)
InitToken ==
    /\ InitLimiterIdle
    /\ InitUnitIdle
    /\ clock \in {0, 1}
    /\ callLim = [p \in Callers |-> "login"]
    /\ mode = "off"

NextToken ==
    \/ \E username \in Usernames : TokenIssue(username)
    \/ \E t \in TokenClocks : t > clock /\ ClockSet(t)
    \/ AlterSignature
    \/ \E claims \in OtherClaims(tokenString.claims) : AlterPayload(claims)
    \/ Malform
    \/ TokenValidate

SpecToken == InitToken /\ [][NextToken]_vars

(***************************************************************************)
(* Specification of the signaling: browsers connect, publish a track,      *)
(* answer offers and leave; every change calls signalPeerConnections.      *)
(* A browser leaves by its websocket failing; its peer connection is       *)
(* closed by the handler's deferred Close.                                 *)
(***************************************************************************)
InitSignal ==
    /\ InitLimiterIdle
    /\ InitUnitIdle
    /\ clock = 0
    /\ callLim = [p \in Callers |-> "login"]
    /\ mode = "off"

NextSignal ==
    \/ \E s \in Peers : SigConnect(s)
    \/ \E s \in Peers : SigAnswer(s)
    \/ \E s \in Peers : SigAnswered(s)
    \/ \E s \in Peers : SigReadError(s)
    \/ \E s \in Peers : SigClose(s)
    \/ \E s \in Peers : \E id \in TrackIDsOf(s) : OnTrack(s, id)
    \/ \E s \in Peers : AddTrackStore(s)
    \/ \E s \in Peers : AddTrackMark(s)
    \/ \E s \in Peers : TrackEnds(s)
    \/ \E s \in Peers : RemoveTrackMark(s)
    \/ \E s \in Peers : RemoveTrackDelete(s)
    \/ \E c \in SignalCallers : PassStart(c)
    \/ PassSkip
    \/ PassRemoveClosed
    \/ PassSync
    \/ PassOffered
    \/ PassRetry
    \/ PassGiveUp
    \/ PassEnd

SpecSignal == InitSignal /\ [][NextSignal]_vars

(***************************************************************************)
(* Specification of one session with everything that can happen to it:     *)
(* its transport may fail while its websocket lives, and its ICE agent     *)
(* trickles candidates while offers are written.                           *)
(***************************************************************************)
NextSession ==
    \/ SigConnect(1)
    \/ SigAnswer(1)
    \/ SigAnswered(1)
    \/ SigReadError(1)
    \/ SigClose(1)
    \/ SigFailed(1)
    \/ \E id \in TrackIDs : OnTrack(1, id)
    \/ AddTrackStore(1)
    \/ AddTrackMark(1)
    \/ TrackEnds(1)
    \/ RemoveTrackMark(1)
    \/ RemoveTrackDelete(1)
    \/ CandidateWrite(1)
    \/ CandidateWritten(1)
    \/ \E c \in SignalCallers : PassStart(c)
    \/ PassSkip
    \/ PassRemoveClosed
    \/ PassSync
    \/ PassOffered
    \/ PassRetry
    \/ PassGiveUp
    \/ PassEnd

SpecSession == InitSignal /\ [][NextSession]_vars

(***************************************************************************)
(* Claims about the rate limiter                                           *)
(***************************************************************************)

\* C6: for every sequence of allow calls on one key and every sequence of
\* clock readings, the tokens stored in a bucket are at most the capacity
\* and never negative (in particular after a successful consume).
C6_TokensWithinCapacity ==
    \A b \in 1..nBuckets :
        /\ buckets[b].tokens >= 0
        /\ buckets[b].tokens <= Capacity(callLim[1]) * tokenMultiplier

\* a consume that followed a refill clamped at the capacity, and one that
\* took the last token
C6_Witness ==
    /\ nCalls >= 3
    /\ pc[1] = "idle"
    /\ buckets[1].time = 13
    /\ buckets[1].tokens \in {0, (Capacity(callLim[1]) - 1) * tokenMultiplier}

BurstGranted == Cardinality({ p \in Callers : ret[p] = "true" })
BurstDone == \A p \in Callers : ret[p] # "none"

\* C7: concurrent allow calls on one bucket while no time elapses: every call
\* that returned true took exactly one whole token (none spent twice, no
\* committed deduction lost), and with t whole tokens available exactly
\* min(n, t) of the n calls return true.
C7_BurstGrantsMinOfCallsAndTokens ==
    nBuckets > 0 =>
        /\ BurstGranted <= avail0
        /\ WholeTokens(buckets[1], clock, "login") = avail0 - BurstGranted
        /\ BurstDone => BurstGranted = Min(NumCallers, avail0)

\* every caller has returned, some granted and some denied
C7_Witness ==
    /\ BurstDone
    /\ avail0 >= 1
    /\ avail0 < NumCallers
    /\ BurstGranted = avail0

ScenarioResults == <<TRUE, TRUE, TRUE, TRUE, TRUE, FALSE, TRUE>>

\* C9: rate 5 per minute, capacity 5: on a fresh key 5 immediate Allow calls
\* return true, a 6th in the same second returns false, and a call made 12
\* seconds later returns true.
C9_FivePerMinuteScenario ==
    scn.on => \A i \in 1..Len(scn.res) : scn.res[i] = ScenarioResults[i]

\* the seven calls of the scenario have all returned
C9_Witness == scn.on /\ Len(scn.res) = 7

\* C8: the sweep removes only buckets idle for more than 600 seconds, and
\* whatever the interleaving with Allow calls, a key is granted at most
\* `capacity` calls in one instant, as with a single never-evicted bucket.
C8_SweepIsTransparent ==
    /\ ~evictedFresh
    /\ \A k \in Keys : granted[k] <= Capacity("login")

(***************************************************************************)
(* Claims about the HTTP server (SpecHTTP)                                 *)
(***************************************************************************)
PrivilegedPaths == {"/v1/auth", "/v1/rcon", "/websocket/logs", "/admin", "/admin/"}

Privileged(r) ==
    /\ r.path \in PrivilegedPaths
    /\ r.path = "/v1/auth" => r.method \in {"GET", "POST"}

\* C1: in the disabled state (no operator password) every request to a
\* privileged endpoint (GET /v1/auth, POST /v1/auth, /v1/rcon,
\* /websocket/logs, /admin) is answered 503 and nothing else: no other
\* status, no crash.
C1_DisabledAnswers503 ==
    (Disabled /\ Privileged(resp.req)) => resp.status = "503"

OperatorToken(r) ==
    /\ HasToken(r)
    /\ validateToken(extractToken(r))
    /\ extractToken(r).role = "admin"
    /\ extractToken(r).username = adminUsername

\* C2: a command reaches the engine through /v1/rcon only for a request
\* whose bearer token is unexpired, signed with the server's secret, has role
\* "admin" and the configured operator's username.  Of the requests that
\* reach the token check (panel enabled, admitted by the rate limiter), one
\* with a missing, malformed, expired or tampered token is answered 401, one
\* with a valid token of another role 403, one with a valid admin token of
\* another username 401, and none of them executes a command.
C2_RconRequiresOperatorToken ==
    resp.req.path = "/v1/rcon" =>
        LET r == resp.req
            t == extractToken(r)
            valid == HasToken(r) /\ validateToken(t)
        IN /\ resp.executed # <<>> => OperatorToken(r)
           /\ (~Disabled /\ resp.status # "429") =>
                  /\ ~valid => resp.status = "401"
                  /\ (valid /\ t.role # "admin") => resp.status = "403"
                  /\ (valid /\ t.role = "admin" /\ t.username # adminUsername)
                         => resp.status = "401"
                  /\ ~OperatorToken(r) => resp.executed = <<>>

\* an operator's request has executed two commands
C2_Witness ==
    /\ resp.req.path = "/v1/rcon"
    /\ OperatorToken(resp.req)
    /\ resp.status = "204"
    /\ Len(resp.executed) = 2

(***************************************************************************)
(* Claims about the signaling handler and the address pool (SpecSFU)       *)
(***************************************************************************)
\* C3: no two simultaneously live sessions hold the same pool index, and an
\* index is put back only by a session that acquired it.
C3_IndexHeldByOneLiveSession ==
    /\ \A s1, s2 \in Sessions :
          (s1 # s2 /\ Live(s1) /\ Live(s2)) => sessIndex[s1] # sessIndex[s2]
    /\ \A s \in putBy : sessOk[s]

\* C4: a connection that finds the pool exhausted (TryGet returned ok =
\* FALSE) is rejected at admission: it is not registered in the session
\* list, no data channel of it is stored in the connections table, and it
\* puts no index into the pool.
C4_ExhaustedPoolRejects ==
    \A s \in Sessions :
        (sessPc[s] # "new" /\ ~sessOk[s]) =>
            /\ s \notin peerConnections
            /\ \A i \in Indices : connections[i] # s
            /\ s \notin putBy

\* C5: once a session's index has been put back into the pool, no packet of
\* that session's read loop is pushed to the engine under the index.
C5_NoPushAfterRelease == ~pushedAfterRelease

(***************************************************************************)
(* Claims about the log fan-out (SpecLogs)                                 *)
(***************************************************************************)
\* the line is still on its way to the subscribers
Pending(l) ==
    \/ l \in Range(logBroadcast)
    \/ dispPc = "fanout" /\ dispMsg = l

\* C10: no gap between replay and live delivery: for a subscriber in live
\* delivery, every line published after its history snapshot and not dropped
\* at a full queue has been offered to its live queue, or is still on its
\* way to the subscribers.
C10_NoGapAfterSnapshot ==
    \A c \in Subscribers :
        subPc[c] = "live" =>
            \A l \in (afterSnapshot[c] \cap published) \ dropped :
                l \in offered[c] \/ Pending(l)

\* position of x in a sequence that holds it once
Pos(t, x) == CHOOSE k \in DOMAIN t : t[k] = x

\* s keeps the order of t
InOrderOf(s, t) ==
    /\ Range(s) \subseteq Range(t)
    /\ \A i, j \in DOMAIN s : i < j => Pos(t, s[i]) < Pos(t, s[j])

Occurrences(t, x) == Cardinality({ k \in DOMAIN t : t[k] = x })

\* the lines Add has been called with so far: 1..RingAdds, in this order
RingAdds == Cardinality(published) + (IF pubPc = "broadcastLog:offer" THEN 1 ELSE 0)

\* C12: publish never blocks: each step of a publisher can be taken at once
\* whatever the state of the queues; every published line has been appended
\* to the ring (the ring holds the last lines added, oldest first) and was
\* offered once to the broadcast queue: it entered the queue once, or the
\* queue was full and it was dropped from live delivery.
C12_PublishNeverBlocks ==
    /\ pubPc = "broadcastLog:offer" => ENABLED BroadcastLogOffer
    /\ pubPc = "Logger.broadcast:add" => ENABLED LoggerAdd
    /\ (pubPc = "idle" /\ nPublished < MaxLines) =>
           (ENABLED BroadcastLogAdd) /\ (ENABLED LoggerOffer)
    /\ LET n == Min(RingAdds, RingCapacity)
       IN GetAllCopy(logBuffer, logBuffer.size, logBuffer.head)
              = [i \in 1..n |-> RingAdds - n + i]
    /\ \A l \in published :
           LET times == Occurrences(dequeued \o logBroadcast, l)
           IN IF l \in droppedBroadcast THEN times = 0 ELSE times = 1

\* a line found the broadcast queue full: it is dropped and is in the ring
C12_Witness ==
    \E l \in droppedBroadcast \cap published :
        /\ l \in Range(logBuffer.buffer)
        /\ Len(logBroadcast) = BroadcastCapacity
        /\ pubPc = "idle"

\* C13: on a /websocket/logs connection no history or log frame is sent and
\* the connection is not registered (nor on its way to be) unless its first
\* message was a v1:auth message with a valid token of role admin and of the
\* configured username; otherwise (no message in time, another message, an
\* invalid token) the server has sent one v1:error frame and nothing else,
\* and has closed the connection.
C13_LogsRequireOperatorAuth ==
    \A c \in Subscribers :
        /\ ( \/ "v1:history" \in Range(sent[c])
             \/ "v1:log" \in Range(sent[c])
             \/ c \in logClients
             \/ subPc[c] \in {"history", "copy", "register", "live"} )
               => authGood[c] = "good"
        /\ authGood[c] = "bad" =>
               /\ sent[c] = <<"v1:error">>
               /\ subPc[c] = "gone"
               /\ history[c] = <<>>

\* one connection was refused with an error frame, another one authenticated
\* and got its history
C13_Witness ==
    \E c1, c2 \in Subscribers :
        /\ authGood[c1] = "bad" /\ sent[c1] = <<"v1:error">> /\ subPc[c1] = "gone"
        /\ authGood[c2] = "good" /\ c2 \in logClients
        /\ sent[c2] = <<"v1:auth", "v1:history">>

LastN(t, n) == SubSeq(t, Len(t) - n + 1, Len(t))

\* C15: for every capacity N >= 1 and every sequence of Add calls made
\* one after the other, GetAll returns the entries in insertion order while
\* at most N were added, and exactly the last N, oldest first, after more.
C15_GetAllLastN ==
    called =>
        /\ Len(seen) <= cb.capacity => result = seen
        /\ Len(seen) > cb.capacity => result = LastN(seen, cb.capacity)

C15_Witness ==
    /\ called
    /\ cb.capacity = 2
    /\ Len(seen) = 5
    /\ result = <<seen[4], seen[5]>>
    /\ seen[4] # seen[5]

\* C16: GetAll yields at most capacity entries, oldest to newest, even
\* while Add runs concurrently: what it returns is the content of the ring
\* at one moment, a contiguous run of the added lines with no newer line
\* before an older one.
C16_GetAllSingleMoment ==
    \A c \in Subscribers :
        /\ Len(history[c]) <= logBuffer.capacity
        /\ \A i \in 1..(Len(history[c]) - 1) : history[c][i + 1] = history[c][i] + 1

RECURSIVE Bytes(_)
\* the byte count of a sequence of packets
Bytes(ps) == IF ps = <<>> THEN 0 ELSE Len(Head(ps).data) + Bytes(Tail(ps))

\* C17: SendToBatch sends the packets in order; it returns the sum of the
\* byte counts when every send succeeds; at the first failing element it
\* returns -1 at once, the earlier packets stay sent and the later ones
\* are not attempted.
C17_BatchStopsAtFirstFailure ==
    /\ Len(wrote) <= Len(packets)
    /\ wrote = SubSeq(packets, 1, Len(wrote))
    /\ netPc = "done" =>
          \/ /\ sendRet = Bytes(packets)
             /\ wrote = packets
             /\ nSendTo = Len(packets)
          \/ /\ sendRet = -1
             /\ Len(wrote) < Len(packets)
             /\ nSendTo = Len(wrote) + 1

C17_Witness ==
    /\ netPc = "done"
    /\ Len(packets) = 2
    /\ sendRet = -1
    /\ Len(wrote) = 1
    /\ nSendTo = 2
    /\ packets[1].addr = packets[2].addr

\* C18: SendTo and SendToBatch never modify the address-to-writer table;
\* the table changes only when a peer's outbound channel is attached (its
\* OnOpen stores the writer at the peer's index); a send to an address
\* with no writer, or whose write fails, returns -1 without trying again:
\* every SendTo makes at most one Write.
C18_SendsLeaveTable ==
    /\ [][/\ netVars' # netVars => connections' = connections
          /\ connections' # connections =>
                \E s \in Sessions :
                    /\ writeChannel[s] = "created"
                    /\ writeChannel'[s] = "open"
                    /\ connections' = [connections EXCEPT ![sessIndex[s]] = s]]_vars
    /\ [](nWrite <= nSendTo)
    /\ [](netPc = "done" /\ Len(packets) = 1 /\ sendRet = -1 =>
              /\ wrote = <<>>
              /\ nSendTo = 1
              /\ nWrite <= 1)

C18_Witness ==
    /\ netPc = "done"
    /\ Len(packets) = 1
    /\ sendRet = -1
    /\ nWrite = 1
    /\ connections[packets[1].addr] # NoSession
    /\ \E i \in Indices : connections[i] = NoSession

\* the packets of inbound pushed by the loop of peer p, in order
PushedBy(p) == SelectSeq(inbound, LAMBDA pkt : pkt.by = p)

\* C19: every message read from a peer's ingress channel produces exactly
\* one packet of the engine's inbound queue, tagged with the peer's
\* synthetic address and holding exactly the bytes of that message, in its
\* own array whatever the loop reads next; the packets of one peer are in
\* the order of its messages.
C19_OnePacketPerMessage ==
    \A p \in ReadPeers :
        /\ Len(PushedBy(p)) = Len(messages[p]) - (IF rlPc[p] = "push" THEN 1 ELSE 0)
        /\ \A k \in 1..Len(PushedBy(p)) :
              /\ Contents(PushedBy(p)[k].data) = messages[p][k]
              /\ PushedBy(p)[k].data.alias = NoSession
              /\ PushedBy(p)[k].ip0 = rlIp[p]
              /\ PushedBy(p)[k].port = Port

C19_Witness ==
    \E p \in ReadPeers :
        /\ Len(PushedBy(p)) = 2
        /\ messages[p] = <<<<1, 2>>, <<2>>>>
        /\ Contents(PushedBy(p)[1].data) = <<1, 2>>
        /\ Contents(PushedBy(p)[2].data) = <<2>>
        /\ Len(inbound) > 2

\* C20: a token made by generateToken validates, at every time before its
\* expiry (24 hours after it was made), to the username it was made for
\* and the role admin; validateToken returns an error for an expired
\* token, for one whose signature or payload has been altered, and for a
\* string that is no token.
C20_TokenRoundTrip ==
    checked.done =>
        /\ (checked.altered = "no" /\ checked.at < issuedAt + jwtExpiration) =>
              /\ ~checked.err
              /\ checked.Username = issuedTo
              /\ checked.Role = "admin"
        /\ (checked.altered # "no" \/ checked.at >= issuedAt + jwtExpiration) =>
              checked.err

C20_Witness ==
    /\ checked.done
    /\ ~checked.err
    /\ issuedAt = 1
    /\ checked.at = jwtExpiration
    /\ checked.Username = "op"
    /\ clock = jwtExpiration + 1

\* what a reply shows to the client and to a clock: status, body, token and
\* the comparisons made for it
Shown(reply) == <<reply.status, reply.body, reply.token, reply.compared>>

\* is reply the answer loginHandler gave to a login with both fields
LoginAnswer(reply) ==
    /\ reply.req.path = "/v1/auth" /\ reply.req.method = "POST"
    /\ reply.status \in {"200", "401"}

\* C21: checkCredentials is true exactly when the username is the
\* configured one and the hash is SHA-512(password + salt); it makes both
\* comparisons whatever the first gives; a login that fails on the
\* username and one that fails on the hash get the same reply, 401 with
\* the same body.
C21_LoginFailuresAlike ==
    LoginAnswer(resp) =>
        /\ resp.status = "200" <=>
              /\ resp.req.creds.username = adminUsername
              /\ resp.req.creds.passwordHash = "sha512(" \o adminPassword \o "+salt)"
        /\ resp.compared = <<"username", "passwordHash">>
        /\ resp.status = "401" =>
              \A r \in Requests :
                  (r.path = "/v1/auth" /\ r.method = "POST"
                      /\ loginHandler(r).status = "401") =>
                      Shown(loginHandler(r)) = Shown(resp)

C21_Witness ==
    /\ LoginAnswer(resp)
    /\ resp.status = "401"
    /\ resp.req.creds.username # adminUsername
    /\ resp.req.creds.passwordHash = "sha512(" \o adminPassword \o "+salt)"
    /\ resp.body = "Invalid username or password"

\* C30: allow never blocks: a call in progress always has a step it can
\* take; it goes back to its load only when another call stored a new
\* state between its load and its compare-and-swap, and each such store is
\* a call that has returned true; every call of a burst returns.
C30_AllowLockFree ==
    /\ [](\A p \in Callers : pc[p] # "idle" => ENABLED AllowStep(p))
    /\ [][\A p \in Callers : (pc[p] = "cas" /\ pc'[p] = "load") => moved[p]]_vars
    /\ [](\A p \in Callers : moved[p] => \E q \in Callers \ {p} : ret[q] = "true")
    /\ \A p \in Callers : [](pc[p] # "idle" => <>(pc[p] = "idle"))

C30_Witness ==
    /\ \E p \in Callers : moved[p] /\ pc[p] = "load" /\ ret[p] = "none"
    /\ Cardinality({ q \in Callers : ret[q] = "true" }) = 2

(***************************************************************************)
(* Claims about the signaling and the track fan-out                        *)
(***************************************************************************)
\* an attempt of signalPeerConnections has gone through the whole slice:
\* attemptSync returns false and the pass completes
PassCompletes == listLock = <<"pass", 0>> /\ passI = Len(pcs) + 1

\* the sinks of the registry except the one made from the session's own track
Expected(s) ==
    { <<id, trackLocals[id]>> : id \in Registered } \ { <<id, s>> : id \in Received(s) }

\* C22: when a pass completes without restarting, every session in the
\* list that is not closed and whose counter is above zero has senders for
\* exactly the tracks of the registry except its own, and was sent an offer
\* in that attempt.
C22_PassSyncsSenders ==
    PassCompletes =>
        \A i \in 1..Len(pcs) :
            (connState[pcs[i]] # "closed" /\ signalsCount[pcs[i]] > 0) =>
                /\ senders[pcs[i]] = SetToBag(Expected(pcs[i]))
                /\ pcs[i] \in passOffered

\* every session in the list has its counter at DefaultSignalsCount
AllMarked == \A i \in 1..Len(pcs) : signalsCount[pcs[i]] = SignalsCount

\* addTrack or removeTrack of session s holds listLock
InTrackChange(s) == listLock = <<"add", s>> \/ listLock = <<"remove", s>>

\* C23: addTrack and removeTrack change the registry and set the counter of
\* every session in the list above zero inside one critical section of
\* listLock: the registry changes only in a step of the lock's holder,
\* nothing else touches the registry, the list or the counters while it is
\* held, and when it is released the change is made and every listed
\* session is marked.
C23_TrackChangeMarksAll ==
    [][/\ trackLocals' # trackLocals =>
              \E s \in Peers : listLock' = <<"add", s>> \/ listLock = <<"remove", s>>
       /\ \A s \in Peers :
              (InTrackChange(s) /\ listLock' = listLock) =>
                  /\ trackLocals' = trackLocals
                  /\ signalsCount' = signalsCount
                  /\ pcs' = pcs
       /\ \A s \in Peers :
              (InTrackChange(s) /\ listLock' # listLock) =>
                  /\ listLock' = Free
                  /\ AllMarked'
                  /\ pcs' = pcs
                  /\ trackLocals'[trackId[s]] =
                         IF listLock[1] = "add" THEN s ELSE NoSession]_vars

C23_Witness ==
    /\ listLock = Free
    /\ trackPc[1] = "signalAdd"
    /\ trackLocals[trackId[1]] = 1
    /\ InList(2) /\ hPc[2] = "loop" /\ offersOut[2] = 0 /\ connState[2] = "open"
    /\ signalsCount[2] = SignalsCount

\* C24: a session whose peer connection has reached Closed is taken out of
\* the list by the pass its close triggers, whatever its counter: when the
\* invocation made by the Closed callback of session s returns without
\* giving up, s is no longer in the list (so no later pass and no key frame
\* dispatch touches it).
C24_ClosedSessionRemoved ==
    [][\A s \in Peers :
           (/\ passBy = <<"closed", s>>
            /\ listLock = <<"pass", 0>> /\ listLock' = Free
            /\ deferred' = deferred) => ~InList(s)']_vars

\* how far the running invocation has got: attempts first, then the index
\* in the slice (a failed attempt counts as past the end), then the write
\* of the offer
PassProgress ==
    syncAttempt * (2 * MaxPeers + 4)
        + (IF passI = 0 THEN 2 * MaxPeers + 3
           ELSE 2 * passI + (IF \E s \in Peers : "offer" \in wsWriters[s] THEN 1 ELSE 0))

\* C25: an invocation of signalPeerConnections always has a next step, every
\* step takes it further and its attempts never exceed the bound, so it
\* returns; it gives the lock back when it returns; a failed step or a
\* change of the list ends the attempt, and the next attempt starts from
\* the first session; at the bound it returns having scheduled exactly one
\* deferred invocation, and nothing else schedules one.
C25_PassTerminates ==
    /\ [](listLock = <<"pass", 0>> =>
              /\ ENABLED PassStep
              /\ syncAttempt \in 1..SyncAttempts
              /\ passI \in 0..Len(pcs) + 1)
    /\ [][(listLock = <<"pass", 0>> /\ listLock' = listLock) =>
              /\ PassProgress' >= PassProgress
              /\ <<syncAttempt, passI, pcs, passOffered>>' # <<syncAttempt, passI, pcs, passOffered>>
                    => PassProgress' > PassProgress
              /\ pcs' # pcs => passI' = 0
              /\ (passI = 0 /\ passI' # 0) => (passI' = 1 /\ syncAttempt' = syncAttempt + 1)
              /\ passI' = 1 => (passI = 0 \/ passI = 1)]_vars
    /\ [][(listLock = <<"pass", 0>> /\ listLock' # listLock) =>
              /\ listLock' = Free
              /\ IF passI = 0
                 THEN syncAttempt = SyncAttempts /\ deferred' = deferred + 1
                 ELSE PassCompletes /\ deferred' = deferred]_vars
    /\ [][deferred' > deferred =>
              (listLock = <<"pass", 0>> /\ listLock' = Free /\ passI = 0)]_vars

C25_Witness ==
    /\ listLock = Free
    /\ deferred = 1
    /\ hPc[1] = "closing"
    /\ InList(1) /\ signalsCount[1] > 0

\* C26: an applied answer takes exactly one from the session's counter;
\* the counter goes down only by an answer (or with the session leaving the
\* list) and goes up only when the session joins the list or addTrack /
\* removeTrack mark it; the write of an offer to a session starts only
\* while its counter is above zero, so a session whose counter has reached
\* zero gets no offer until the next track change.
C26_AnswersCountDown ==
    [][\A s \in Peers :
           /\ (hPc[s] = "answered" /\ hPc'[s] # "answered") =>
                  signalsCount'[s] = signalsCount[s] - 1
           /\ (offersOut'[s] < offersOut[s] /\ connState'[s] = "open") =>
                  hPc'[s] = "answered"
           /\ (signalsCount'[s] < signalsCount[s] /\ InList(s)') =>
                  hPc[s] = "answered" /\ signalsCount'[s] = signalsCount[s] - 1
           /\ (signalsCount'[s] > signalsCount[s] /\ InList(s)') =>
                  /\ signalsCount'[s] = SignalsCount
                  /\ \/ ~InList(s)
                     \/ \E t \in Peers : listLock = <<"add", t>> \/ listLock' = <<"remove", t>>
           /\ ("offer" \in wsWriters'[s] /\ "offer" \notin wsWriters[s]) =>
                  signalsCount[s] > 0]_vars

C26_Witness ==
    /\ listLock = <<"pass", 0>>
    /\ pcs = <<1, 2>>
    /\ passI = 3
    /\ signalsCount[1] = 0 /\ connState[1] = "open" /\ hPc[1] = "loop"
    /\ passOffered = {2}

\* C27: a sink leaves the registry only when the track it was made from
\* ends: an entry is deleted only by the removeTrack of the session whose
\* track made that sink, also when two sessions publish tracks with the
\* same ID.
C27_SinkRemovedByOwner ==
    [][\A id \in TrackIDs :
           (trackLocals[id] # NoSession /\ trackLocals'[id] = NoSession) =>
               listLock = <<"remove", trackLocals[id]>>]_vars

\* C28: no two writes on a session's websocket overlap: at most one of the
\* offer and the candidate is inside Conn.WriteJSON at a time, and an offer
\* is written to a session only by the invocation that holds listLock, at
\* its index, so two offers to one session are never written at once.
C28_WritesSerialized ==
    \A s \in Peers :
        /\ Cardinality(wsWriters[s]) <= 1
        /\ "offer" \in wsWriters[s] =>
              (listLock = <<"pass", 0>> /\ passI \in 1..Len(pcs) /\ pcs[passI] = s)

C28_Witness ==
    /\ wsWriters[1] = {"candidate"}
    /\ listLock = <<"pass", 0>>
    /\ passI = 1 /\ pcs = <<1>>
    /\ ~Settled(1) /\ connState[1] = "open" /\ ~Broken(1)

\* the senders of session s whose track has the ID id
SendersFor(s, id) ==
    LET with == { t \in BagToSet(senders[s]) : t[1] = id }
    IN IF with = {} THEN 0
       ELSE BagCardinality([t \in with |-> senders[s][t]])

\* C29: the sync of a session is idempotent and safe to restart: no session
\* ever has two senders for one track ID; syncing the senders a sync has
\* produced, with the same registry, gives the same senders; and a step
\* changes a session's senders only when they were not yet what the sync
\* makes of them.
C29_SyncIdempotent ==
    /\ [](\A s \in Peers :
              /\ \A id \in TrackIDs : SendersFor(s, id) <= 1
              /\ Sync(Synced(s), s) = Synced(s))
    /\ [][\A s \in Peers :
              (senders'[s] # senders[s] /\ connState'[s] # "closed") =>
                  /\ senders'[s] = Synced(s)
                  /\ senders[s] # Synced(s)]_vars

C29_Witness ==
    /\ PassCompletes
    /\ pcs = <<1, 2>>
    /\ 2 \in passOffered
    /\ signalsCount[2] = 1
    /\ senders[2] = SetToBag({<<1, 1>>})
    /\ trackLocals[1] = 1

(***************************************************************************)
(* Further claims about the connections table (SpecSFU)                    *)
(***************************************************************************)
\* C32: every entry of the connections table is empty or the writer of the
\* live session that holds the entry's index: the entry of a session that
\* has closed delivers to it no more, and a session that held the index
\* earlier never has its writer in the entry of a later holder.
C32_TableEntriesAreLive ==
    \A i \in Indices :
        connections[i] # NoSession =>
            /\ Live(connections[i])
            /\ sessIndex[connections[i]] = i

(***************************************************************************)
(* Further claims about the log fan-out (SpecLogs)                         *)
(***************************************************************************)
\* C38: a subscriber never receives the same published line twice: a line
\* of its history replay is not delivered again as a live v1:log frame, and
\* no line is delivered live more than once.
C38_NoLineTwice ==
    \A c \in Subscribers :
        /\ Range(history[c]) \cap Range(delivered[c]) = {}
        /\ \A i, j \in DOMAIN delivered[c] :
               delivered[c][i] = delivered[c][j] => i = j

\* the subscriber's queue has been closed
QueueClosed(c) == subPc[c] = "gone" /\ authGood[c] = "good"

\* C37: the dispatcher never offers a line to a closed queue: every
\* subscriber in the table has an open queue (the handler deletes it from the
\* table before it closes the queue), a fan-out step finds the queue of every
\* subscriber of the table open, and a subscriber whose queue is closed stays
\* out of the table and is sent nothing more (its write pump has returned).
C37_NoOfferToClosedQueue ==
    /\ [](\A c \in Subscribers :
              /\ c \in logClients => ~QueueClosed(c)
              /\ subPc[c] = "close" => c \notin logClients /\ ENABLED CloseChan(c))
    /\ [][\A c \in Subscribers :
              /\ (dispPc = "fanout" /\ dispPc' = "receive" /\ c \in logClients)
                     => ~QueueClosed(c)
              /\ QueueClosed(c) =>
                     /\ c \notin logClients' /\ QueueClosed(c)'
                     /\ delivered'[c] = delivered[c] /\ sent'[c] = sent[c]]_vars

\* a subscriber that was sent a live line has left: it is out of the table
\* and its queue is closed, while another subscriber is registered and the
\* dispatcher is about to fan out a line
C37_Witness ==
    \E c \in Subscribers :
        /\ QueueClosed(c) /\ c \notin logClients
        /\ delivered[c] # <<>>
        /\ logClients # {}
        /\ dispPc = "fanout"
(***************************************************************************)
(* Further claims about the HTTP routes (SpecHTTP)                         *)
(***************************************************************************)
\* the answer of the first failing check of /v1/rcon, the checks taken in
\* the order rate limit, disabled state, token, role, username, method, body
FirstFailingCheck(r, admitted) ==
    IF ~admitted THEN "429"
    ELSE IF Disabled THEN "503"
    ELSE IF ~HasToken(r) \/ ~validateToken(extractToken(r)) THEN "401"
    ELSE IF extractToken(r).role # "admin" THEN "403"
    ELSE IF extractToken(r).username # adminUsername THEN "401"
    ELSE IF r.method # "POST" THEN "405"
    ELSE rconHandler(r).status

\* the rcon limiter's bucket of the request's address before the request
RconBucket(r) ==
    IF visitors["rcon"][r.ip] = NoBucket THEN newAtomicTokenBucket("rcon", clock)
    ELSE buckets[visitors["rcon"][r.ip]]

\* C39: a request to /v1/rcon is answered by the first failing check, in the
\* order rate limit, disabled state, token presence and validity, role,
\* username, method, body: an address with no token left is answered 429
\* whatever the request carries, every admitted request takes one token from
\* the rcon limiter's bucket of its address, and the login limiter's buckets
\* are left alone.
C39_RconChecksInOrder ==
    [][resp'.req.path = "/v1/rcon" =>
               LET r == resp'.req
                   admitted == CanConsume(RconBucket(r), clock, "rcon")
               IN /\ resp'.status = FirstFailingCheck(r, admitted)
                  /\ admitted =>
                         WholeTokens(buckets'[visitors'["rcon"][r.ip]], clock, "rcon")
                             = WholeTokens(RconBucket(r), clock, "rcon") - 1
                  /\ visitors'["login"] = visitors["login"]
                  /\ \A k \in Keys :
                         visitors["login"][k] # NoBucket =>
                             buckets'[visitors["login"][k]] = buckets[visitors["login"][k]]]_vars

(***************************************************************************)
(* Further claims about the signaling (SpecSignal, SpecSession)            *)
(***************************************************************************)
\* C36: the renegotiation counter of every session of the list lies between
\* 0 and DefaultSignalsCount, whatever offers, answers and track changes
\* there have been.
C36_CounterInRange ==
    \A s \in Peers : InList(s) => signalsCount[s] \in 0..SignalsCount
\* C33: the locks of the signaling core never deadlock.  The writer's mutex
\* of a session is held by an offer only inside the invocation that holds
\* the list lock and by the candidate callback without any list lock; the
\* holder of a lock never waits for a lock held by a task that waits for it:
\* addTrack and removeTrack, holding the list lock, can always go on to their
\* unlock, a candidate callback holding the mutex can always finish its
\* write, and signalPeerConnections holding the list lock can take its next
\* step unless the mutex it needs is held by a candidate write, which can
\* finish.  Every lock is taken by a task that does not hold it.
C33_LocksNeverDeadlock ==
    /\ [](\A s \in Peers :
              /\ "offer" \in wsWriters[s] => listLock = <<"pass", 0>>
              /\ "candidate" \in wsWriters[s] => ENABLED CandidateWritten(s)
              /\ listLock = <<"add", s>> => ENABLED AddTrackMark(s)
              /\ listLock = <<"remove", s>> => ENABLED RemoveTrackDelete(s))
    /\ [](listLock = <<"pass", 0>> =>
              \/ ENABLED PassStep
              \/ \E s \in Peers : "candidate" \in wsWriters[s]
                                      /\ ENABLED CandidateWritten(s))
    /\ [][/\ listLock' # listLock => (listLock = Free \/ listLock' = Free)
          /\ \A s \in Peers :
                 wsWriters'[s] # wsWriters[s] =>
                     (wsWriters[s] = {} \/ wsWriters'[s] = {})]_vars

\* signalPeerConnections holds the list lock and waits for the writer's
\* mutex of the session, which a candidate write holds, while the session's
\* addTrack waits for the list lock
C33_Witness ==
    /\ listLock = <<"pass", 0>>
    /\ wsWriters[1] = {"candidate"}
    /\ ~ENABLED PassStep
    /\ trackPc[1] = "add"

(***************************************************************************)
(* Renegotiation while sessions fail: browsers connect and answer, a       *)
(* session's connection may break and stay unclosed for any length of time *)
(* (ReadMessage has no deadline, lines 494-500), and every started         *)
(* signalPeerConnections call runs on.                                     *)
(***************************************************************************)
NextRetry ==
    \/ \E s \in Peers : SigConnect(s)
    \/ \E s \in Peers : SigAnswer(s)
    \/ \E s \in Peers : SigAnswered(s)
    \/ \E s \in Peers : SigReadError(s)
    \/ \E s \in Peers : SigClose(s)
    \/ \E c \in SignalCallers : PassStart(c)
    \/ PassSkip
    \/ PassRemoveClosed
    \/ PassSync
    \/ PassOffered
    \/ PassRetry
    \/ PassGiveUp
    \/ PassEnd

SpecRetry ==
    /\ InitSignal
    /\ [][NextRetry]_vars
    /\ WF_vars(PassStep)
    /\ \A c \in SignalCallers : WF_vars(PassStart(c))
    /\ \A s \in Peers : WF_vars(SigAnswered(s))

\* the session is live, its counter is above zero and no offer to it is
\* unanswered
NeedsOffer(s) ==
    /\ InList(s) /\ connState[s] = "open" /\ ~Broken(s)
    /\ ~Settled(s)
    /\ offersOut[s] = 0 /\ hPc[s] # "answered"

NextQuiet ==
    \/ \E s \in Peers : SigConnect(s)
    \/ \E s \in Peers : SigAnswer(s)
    \/ \E s \in Peers : SigAnswered(s)
    \/ \E s \in Peers : \E id \in TrackIDsOf(s) : OnTrack(s, id)
    \/ \E s \in Peers : AddTrackStore(s)
    \/ \E s \in Peers : AddTrackMark(s)
    \/ \E c \in SignalCallers : PassStart(c)
    \/ PassSkip
    \/ PassSync
    \/ PassOffered
    \/ PassEnd

SpecQuiet ==
    /\ InitSignal
    /\ [][NextQuiet]_vars
    /\ WF_vars(PassStep)
    /\ \A c \in SignalCallers : WF_vars(PassStart(c))
    /\ \A s \in Peers :
           /\ WF_vars(SigAnswer(s)) /\ WF_vars(SigAnswered(s))
           /\ WF_vars(AddTrackStore(s)) /\ WF_vars(AddTrackMark(s))

\* nothing of the offer/answer exchange is left to do
Quiescent ==
    /\ listLock = Free
    /\ \A c \in SignalCallers : ~Calling(c)
    /\ \A s \in Peers :
           /\ InList(s) => Settled(s)
           /\ offersOut[s] = 0 /\ wsWriters[s] = {}
           /\ hPc[s] \in {"new", "loop"}
           /\ trackPc[s] \in {"none", "reading"}

\* C35: with browsers that answer every offer, and once the track changes
\* have stopped, the exchange quiesces: from some point on every session's
\* counter is at most zero, no offer is unanswered and none is being or
\* about to be sent; so only finitely many offers are sent.
C35_ExchangeQuiesces == <>[]Quiescent

\* both browsers publish a track and the exchange has come to rest
C35_Witness ==
    /\ Quiescent
    /\ \A s \in Peers : InList(s) /\ trackPc[s] = "reading"
    /\ \A id \in TrackIDs : trackLocals[id] # NoSession

(***************************************************************************)
(* One browser and the frames it sends: it connects, is sent offers, and   *)
(* its handler reads up to MaxFrames frames.                               *)
(***************************************************************************)
NextFrames ==
    \/ SigConnect(1)
    \/ \E f \in Frames : SigFrame(1, f)
    \/ SigAnswered(1)
    \/ SigReadError(1)
    \/ SigClose(1)
    \/ \E c \in SignalCallers : PassStart(c)
    \/ PassSkip
    \/ PassRemoveClosed
    \/ PassSync
    \/ PassOffered
    \/ PassRetry
    \/ PassEnd

SpecFrames == InitSignal /\ [][NextFrames]_vars

\* the step is the handler of session s reading a frame
FrameRead(s) == frame'[s].n = frame[s].n + 1

\* C40: a frame is dispatched on its own content only: the event and the
\* data the handler acts on are those of the frame it has just read (none,
\* where the frame has none), and a frame without an event or without data
\* changes nothing of the session: the handler stays in its loop, no answer
\* and no candidate is applied, and the counter is not decremented later on
\* its account.
C40_FramesStandAlone ==
    [][\A s \in Peers :
           FrameRead(s) =>
               /\ message'[s].Event
                      = (IF frame'[s].event = Absent THEN "" ELSE frame'[s].event)
               /\ message'[s].Data
                      = (IF frame'[s].data = Absent THEN NoData ELSE frame'[s].data)
               /\ (frame'[s].event = Absent \/ frame'[s].data = Absent) =>
                      /\ hPc'[s] = hPc[s]
                      /\ offersOut'[s] = offersOut[s]
                      /\ remoteDescription'[s] = remoteDescription[s]
                      /\ iceCandidates'[s] = iceCandidates[s]]_vars

\* C31: candidates received from the browser are kept until the peer
\* connection has a remote description and none is dropped: no candidate is
\* added before a remote description has been applied, the handler goes on
\* after a candidate frame whether or not the candidate could be added, and
\* a candidate that arrives once the remote description is there is added.
C31_CandidatesQueued ==
    /\ [](\A s \in Peers : iceCandidates[s] > 0 => remoteDescription[s])
    /\ [][\A s \in Peers :
              (/\ FrameRead(s)
               /\ frame'[s].event = EventCandidate /\ frame'[s].data = "candidate") =>
                  /\ hPc'[s] = "loop"
                  /\ remoteDescription[s] => iceCandidates'[s] = iceCandidates[s] + 1]_vars
====
